---------------------------- MODULE Spec2Model ----------------------------
(***************************************************************************)
(* Model of the barbican / outpost relocation and memory-layout engine:    *)
(*   - the memory layout planner (gen_memory_layout, both revisions),      *)
(*   - AppElf.relocate (section, symbol table, GOT and segment fixups),    *)
(*   - the relocate_project pipeline (placement, task metadata table,      *)
(*     kernel patch, output files).                                        *)
(*   - JobFlags and TaskHandle of task_meta.py and the functions of utils. *)
(*   - the Git backend of scm, the MemoryLayout list and the working      *)
(*     directory decorators.                                               *)
(* The specifications share the module: Spec (planner), RelocSpec and      *)
(* GotSpec (AppElf.relocate), ProjectSpec (relocate_project), CodecSpec    *)
(* (JobFlags and TaskHandle), UtilsSpec (the functions of utils), GitSpec  *)
(* (scm/git.py), ListSpec (MemoryLayout) and WdSpec (working_directory).   *)
(***************************************************************************)
EXTENDS Integers, Sequences, FiniteSets, TLC

VARIABLES
    \* ---- memory layout planner (run_gen_memory_layout) ----
    planner,            \* "pmsav7": pyledger revision, "fixed": barbican revision
    sentry,             \* section info of the kernel ELF
    dts,                \* reserved-memory nodes of the device tree (fixed planner)
    apps,               \* the application ELFs, in the order they were supplied
    pc,                 \* position of the planner
    layout,             \* the MemoryLayout being built
    next_memory_slot,   \* <<next text address, next ram address>>
    limits,             \* <<code_limit, ram_limit>>
    idx,                \* index of the next application of the for loop
    output,             \* the saved layout document
    error,              \* message of the exception that ended the run, or ""
    \* ---- AppElf.relocate ----
    elf0,               \* the application ELF as it was parsed
    elf,                \* the application ELF being relocated
    rpc,                \* position inside relocate
    rargs,              \* <<srom, sram>> of the call
    \* ---- relocate_project ----
    proj,               \* the project's ELF files and the pipeline's locals
    ppc,                \* position inside relocate_project
    written,            \* the output files written so far
    \* ---- JobFlags and TaskHandle (relocation/task_meta.py) ----
    obj,                \* the object under test: its class and its raw field
    hist,               \* the values last assigned to it and the last assignment
    \* ---- utils (pow2_round_up, pow2_greatest_divisor, align_to) ----
    call,               \* a call of a function of utils: arguments and result
    \* ---- scm/git.py ----
    origin,             \* the remote repository: its commits and branch tips
    repo,               \* the local clone, or NotCloned
    revision,           \* the revision the package is configured with
    gitop,              \* the last download() or update(): its outcome
    \* ---- utils: MemoryLayout, working_directory ----
    ml,                 \* a MemoryLayout: its data and the exception of the last operation
    wd                  \* the process: its current directory and the wrapped calls in progress

layoutVars == <<planner, sentry, dts, apps, pc, layout, next_memory_slot, limits, idx, output, error>>
relocVars == <<elf0, elf, rpc, rargs>>
projVars == <<proj, ppc, written>>
codecVars == <<obj, hist>>
utilVars == <<call>>
gitVars == <<origin, repo, revision, gitop>>
toolVars == <<ml, wd>>
vars == <<layoutVars, relocVars, projVars, codecVars, utilVars, gitVars, toolVars>>

-----------------------------------------------------------------------------
(* Bounds of the model *)

\* longest list of applications handed to the planner or to relocate_project
MaxApps == 2
\* largest number of 4-byte words in a .got section
MaxGotWords == 2
\* arguments of the functions of utils: numbers 2**k + d with k up to
\* MaxSmallExp (and the exponents of LargeExponents) and d up to MaxOff
MaxSmallExp == 4
MaxOff == 8
\* arguments of align_to: x up to MaxAlignArg, a up to MaxAlignment
MaxAlignArg == 16
MaxAlignment == 6
\* commits ever made on origin
MaxCommits == 3
MaxGotBytes == 6
MaxItems == 3
MaxDepth == 2

-----------------------------------------------------------------------------
(* Arithmetic helpers: utils/__init__.py *)

RECURSIVE Pow2(_)
\* 2**n
Pow2(n) == IF n = 0 THEN 1 ELSE 2 * Pow2(n - 1)

RECURSIVE CeilLog2From(_, _)
\* the least n >= from with 2**n >= x
CeilLog2From(x, from) == IF Pow2(from) >= x THEN from ELSE CeilLog2From(x, from + 1)

\* the least n with 2**n >= x, for x >= 1
CeilLog2(x) == CeilLog2From(x, 0)

RECURSIVE FloorLog2(_)
\* the greatest n with 2**n <= x, for x >= 1: x.bit_length() - 1
FloorLog2(x) == IF x < 2 THEN 0 ELSE 1 + FloorLog2(x \div 2)

\* Python integers are unbounded. A positive integer is held as the record
\* [exp, off] of its leading power of two and the rest, x = 2**exp + off with
\* 0 <= off < 2**exp, so that arguments beyond 2**31 have a value too.
Num(exp, off) == [exp |-> exp, off |-> off]

\* zero has no leading power of two
Zero == [exp |-> -1, off |-> 0]

\* the record of a number of 0 .. 2**31 - 1
NumOf(x) == IF x = 0 THEN Zero ELSE Num(FloorLog2(x), x - Pow2(FloorLog2(x)))

\* math.log2 returns a double: the one nearest to the logarithm. For
\* x = 2**k + d, 0 < d < 2**k <= 2**52, the logarithm is k + log2(1 + d / 2**k)
\* and the doubles next to k are 2**(FloorLog2(k) - 52) apart, so the result
\* is the integer k itself when log2(1 + d / 2**k) is less than half of that:
\* when d < ln(2) * 2**(k + FloorLog2(k) - 53), ln(2) = 0.693147...
log2_rounds_to_integer(n) ==
    LET s == n.exp + FloorLog2(n.exp) - 53
    IN  s >= 0 /\ n.off * 1000000 < 693147 * Pow2(s)

\* math.ceil(math.log2(x))
math_ceil_log2(n) ==
    IF n.off = 0 \/ log2_rounds_to_integer(n) THEN n.exp ELSE n.exp + 1

\* a rounding that goes down to the previous power of two
pow2_round_down(x) == IF x = 0 THEN 1 ELSE IF Pow2(CeilLog2(x)) = x THEN x ELSE Pow2(CeilLog2(x) - 1)

\* return 1 if x == 0 else 2**math.ceil(math.log2(x))
\* on records: the exponent of the power of two returned
pow2_round_up_exponent(n) == IF n = Zero THEN 0 ELSE math_ceil_log2(n)

pow2_round_up(x) == Pow2(pow2_round_up_exponent(NumOf(x)))

\* whether 2**m divides the number n: it divides nothing smaller than itself,
\* and it divides 2**exp + off, m <= exp, exactly when it divides off
PowDivides(m, n) ==
    \/ n = Zero
    \/ /\ m <= n.exp
       /\ IF m > 30 THEN n.off = 0 ELSE n.off % Pow2(m) = 0

\* math.gcd(x, 2**j), as the exponent of the result: the divisors of 2**j
\* are the powers of two up to it, the greatest that divides x as well
math_gcd_pow2(n, j) ==
    CHOOSE m \in 0..j : PowDivides(m, n) /\ \A q \in 0..j : PowDivides(q, n) => q <= m

\* the greatest common divisor with the half of the rounded number
pow2_greatest_divisor_of_half(n) ==
    LET j == pow2_round_up_exponent(n) IN math_gcd_pow2(n, IF j = 0 THEN 0 ELSE j - 1)

\* return math.gcd(x, pow2_round_up(x)); on records, the exponent of the
\* power of two returned
pow2_greatest_divisor(n) == math_gcd_pow2(n, pow2_round_up_exponent(n))

\* an alignment that always moves to the next multiple
align_to_next(x, a) == ((x + a) \div a) * a

\* an alignment that truncates instead of rounding up
align_to_floor(x, a) == (x \div a) * a

\* ((x + a - 1) // a) * a
align_to(x, a) == ((x + a - 1) \div a) * a

-----------------------------------------------------------------------------
(* ELF images: relocation/elfutils.py.  An image is a record                *)
(*   name          file name                                                *)
(*   sections      section name -> [virtual_address, size]                  *)
(*   got_content   the bytes of .got                                        *)
(*   symbols       symbol name -> value                                     *)
(*   segments      segment -> [virtual_address, physical_address]           *)
(*   metadata      the "task" table of the .note.package document, or       *)
(*                 NoMetadata                                               *)
(*   prev_sections section info captured by AppElf.__init__                 *)

\* AppElf.FLASH_SECTIONS
FLASH_SECTIONS == <<".text", ".ARM">>

\* AppElf.RAM_SECTIONS
RAM_SECTIONS == <<".svcexchange", ".got", ".data", ".bss">>

SectionNames == {".text", ".ARM", ".svcexchange", ".got", ".data", ".bss"}

SymbolNames == {"_erom", "_sheap", "_sigot", "_start", "sym"}

\* section.segments[0] of the three sections _segment_fixup looks at
SegmentOf(section_name) ==
    CASE section_name = ".text" -> "text_segment"
      [] section_name = ".svcexchange" -> "svc_segment"
      [] section_name = ".got" -> "data_segment"

SegmentNames == {"text_segment", "svc_segment", "data_segment"}

\* size of one GOT entry: chunk_size of _got_fixup
chunk_size == 4

RECURSIVE to_bytes(_, _)
\* int.to_bytes(length, "little")
to_bytes(v, length) ==
    IF length = 0 THEN <<>> ELSE <<v % 256>> \o to_bytes(v \div 256, length - 1)

RECURSIVE from_bytes(_)
\* int.from_bytes(bytes, "little")
from_bytes(bytes) ==
    IF bytes = <<>> THEN 0 ELSE Head(bytes) + 256 * from_bytes(Tail(bytes))

RECURSIVE HexToInt(_)
\* int(string, base=16) of a string given as its sequence of digit values
HexToInt(digits) ==
    IF digits = <<>> THEN 0
    ELSE 16 * HexToInt(SubSeq(digits, 1, Len(digits) - 1)) + digits[Len(digits)]

RECURSIVE WordsToBytes(_)
\* the content of a .got holding the given words
WordsToBytes(words) ==
    IF words = <<>> THEN <<>> ELSE to_bytes(Head(words), chunk_size) \o WordsToBytes(Tail(words))

\* Elf.get_section_info: (vma, size)
get_section_info(e, section_name) ==
    <<e.sections[section_name].virtual_address, e.sections[section_name].size>>

\* Elf.get_symbol_address
get_symbol_address(e, symbol_name) == e.symbols[symbol_name]

\* Elf.get_symbol_offset_from_section
get_symbol_offset_from_section(e, symbol_name, from_section_name) ==
    get_symbol_address(e, symbol_name) - get_section_info(e, from_section_name)[1]

RECURSIVE SumSizes(_, _)
SumSizes(e, names) ==
    IF names = <<>> THEN 0 ELSE get_section_info(e, Head(names))[2] + SumSizes(e, Tail(names))

\* AppElf.flash_size
flash_size(e) == SumSizes(e, FLASH_SECTIONS)

\* AppElf.ram_size
ram_size(e) ==
    HexToInt(e.metadata.stack_size) + HexToInt(e.metadata.heap_size) + SumSizes(e, RAM_SECTIONS)

\* An application as the linker leaves it: .text at ltext, .ARM after it (after
\* an alignment gap), the load image of .got and .data next in flash, _erom at
\* the end of flash; .svcexchange at lram, then .got, .data, .bss, and _sheap
\* at the end of .bss.  probe is the value of one more symbol, sym;
\* got is the content of .got.
AppImageOfBytes(name, ltext, lram, text_size, arm_size, gap, got, data_size, bss_size, meta, probe) ==
    LET arm_addr == ltext + text_size + gap
        sigot == arm_addr + arm_size
        erom == sigot + Len(got) + data_size
        svc_size == 8
        got_addr == lram + svc_size
        data_addr == got_addr + Len(got)
        bss_addr == data_addr + data_size
        secs == [n \in SectionNames |->
                   CASE n = ".text" -> [virtual_address |-> ltext, size |-> text_size]
                     [] n = ".ARM" -> [virtual_address |-> arm_addr, size |-> arm_size]
                     [] n = ".svcexchange" -> [virtual_address |-> lram, size |-> svc_size]
                     [] n = ".got" -> [virtual_address |-> got_addr, size |-> Len(got)]
                     [] n = ".data" -> [virtual_address |-> data_addr, size |-> data_size]
                     [] n = ".bss" -> [virtual_address |-> bss_addr, size |-> bss_size]]
    IN  [name |-> name,
         sections |-> secs,
         got_content |-> got,
         symbols |-> [n \in SymbolNames |->
                        CASE n = "_erom" -> erom
                          [] n = "_sheap" -> bss_addr + bss_size
                          [] n = "_sigot" -> sigot
                          [] n = "_start" -> ltext
                          [] n = "sym" -> probe],
         segments |-> [g \in SegmentNames |->
                        CASE g = "text_segment" -> [virtual_address |-> ltext, physical_address |-> ltext]
                          [] g = "svc_segment" -> [virtual_address |-> lram, physical_address |-> lram]
                          [] g = "data_segment" -> [virtual_address |-> got_addr, physical_address |-> sigot]],
         metadata |-> meta,
         prev_sections |-> secs]

\* the same, of a .got holding the given words
AppImage(name, ltext, lram, text_size, arm_size, gap, got_words, data_size, bss_size, meta, probe) ==
    AppImageOfBytes(name, ltext, lram, text_size, arm_size, gap, WordsToBytes(got_words),
                    data_size, bss_size, meta, probe)

-----------------------------------------------------------------------------
(* AppElf.relocate: relocation/elfutils.py *)

RECURSIVE relocate_sections_no_advance(_, _, _)
\* a relocation that forgets to advance by the section size
relocate_sections_no_advance(e, sections, saddr) ==
    IF sections = <<>> THEN e
    ELSE relocate_sections_no_advance(
            [e EXCEPT !.sections[Head(sections)].virtual_address = saddr],
            Tail(sections), saddr)

RECURSIVE _relocate_sections(_, _, _)
\* _relocate_sections(sections, saddr)
_relocate_sections(e, sections, saddr) ==
    IF sections = <<>> THEN e
    ELSE _relocate_sections(
            [e EXCEPT !.sections[Head(sections)].virtual_address = saddr],
            Tail(sections),
            saddr + e.sections[Head(sections)].size)

\* _symtab_fixup: the ranges and offsets are read before the loop over the
\* symbols, the loop then rewrites each symbol from its own value
_symtab_fixup(e) ==
    LET s_rom == e.prev_sections[".text"].virtual_address
        e_rom == e.symbols["_erom"]
        rom_offset == e.sections[".text"].virtual_address - s_rom
        s_ram == e.prev_sections[".svcexchange"].virtual_address
        e_ram == e.symbols["_sheap"]
        ram_offset == e.sections[".svcexchange"].virtual_address - s_ram
        Offset(v) == IF s_rom <= v /\ v <= e_rom THEN rom_offset
                     ELSE IF s_ram <= v /\ v <= e_ram THEN ram_offset
                     ELSE 0
    IN  [e EXCEPT !.symbols = [n \in DOMAIN e.symbols |->
                                 IF Offset(e.symbols[n]) > 0
                                 THEN e.symbols[n] + Offset(e.symbols[n])
                                 ELSE e.symbols[n]]]

RECURSIVE PatchGot(_, _, _, _)
\* the loop of _got_fixup over the chunks of the content
PatchGot(content, s_ram, e_ram, ram_offset) ==
    IF content = <<>> THEN <<>>
    ELSE LET n == IF Len(content) < chunk_size THEN Len(content) ELSE chunk_size
             addr == from_bytes(SubSeq(content, 1, n))
             patched == IF s_ram <= addr /\ addr <= e_ram THEN addr + ram_offset ELSE addr
         IN  to_bytes(patched, chunk_size)
               \o PatchGot(SubSeq(content, n + 1, Len(content)), s_ram, e_ram, ram_offset)

\* _got_fixup: e_ram is the value _sheap has when the fixup runs; setting the
\* content of a section sets its size to the length of the content
_got_fixup(e) ==
    LET s_ram == e.prev_sections[".svcexchange"].virtual_address
        e_ram == e.symbols["_sheap"]
        ram_offset == e.sections[".svcexchange"].virtual_address - s_ram
        patched_got == PatchGot(e.got_content, s_ram, e_ram, ram_offset)
    IN  [e EXCEPT !.got_content = patched_got, !.sections[".got"].size = Len(patched_got)]

\* _segment_fixup
_segment_fixup(e) ==
    LET text == e.sections[".text"].virtual_address
        svc == e.sections[".svcexchange"].virtual_address
        got == e.sections[".got"].virtual_address
        e1 == [e EXCEPT !.segments[SegmentOf(".text")] =
                           [virtual_address |-> text, physical_address |-> text]]
        e2 == [e1 EXCEPT !.segments[SegmentOf(".svcexchange")] =
                           [virtual_address |-> svc, physical_address |-> svc]]
    IN  [e2 EXCEPT !.segments[SegmentOf(".got")] =
                           [virtual_address |-> got,
                            physical_address |-> get_symbol_address(e2, "_sigot")]]

\* a relocation that leaves the image where the linker put it
relocate_nowhere(e, srom, sram) == e

\* AppElf.relocate(srom, sram), the five steps in the order of the code
relocate(e, srom, sram) ==
    _segment_fixup(_got_fixup(_symtab_fixup(
        _relocate_sections(_relocate_sections(e, FLASH_SECTIONS, srom), RAM_SECTIONS, sram))))

-----------------------------------------------------------------------------
(* Inputs of the planner *)

NoMetadata == [type |-> "none"]

\* the "task" table of an application's package metadata; sizes are strings
\* of hexadecimal digits, given as their digit values
TaskMetadata(stack_digits, heap_digits, magic) ==
    [type |-> "outpost application",
     stack_size |-> stack_digits, heap_size |-> heap_digits, magic_value |-> magic,
     priority |-> <<1, 0>>, quantum |-> <<4>>, auto_start |-> "true", exit_modes |-> {"panic", "reset"}]

\* an application of the planner's input: only its footprint varies
PlannerApp(i, p) ==
    AppImage("app" \o ToString(i), 64, 256, p.text_size, p.arm_size, 0, <<>>, 4, 4,
             TaskMetadata(<<1, 0>>, p.heap, <<i>>), 0)

PlannerAppParams ==
    [text_size : {0, 24, 33, 64}, arm_size : {0}, heap : {<<0>>, <<1, 8>>}]
        \cup [text_size : {30}, arm_size : {2}, heap : {<<0>>}]

\* the lists of at most MaxApps applications
AppLists ==
    UNION {{[i \in 1..n |-> PlannerApp(i, f[i])] : f \in [1..n -> PlannerAppParams]} : n \in 0..MaxApps}

\* The kernel ELF.  Its own sections and the idle task's reserved sections
\* are laid out by the kernel build: the kernel first, the idle task after it.
SentryImage(idle_text_addr, idle_text_size, task_list_size) ==
    [name |-> "sentry-kernel",
     sections |-> [n \in {".isr_vector", ".bss", ".idle_task", "._idle", ".task_list"} |->
                     CASE n = ".isr_vector" -> [virtual_address |-> 0, size |-> 8]
                       [] n = ".bss" -> [virtual_address |-> 0, size |-> 24]
                       [] n = ".idle_task" -> [virtual_address |-> idle_text_addr, size |-> idle_text_size]
                       [] n = "._idle" -> [virtual_address |-> 32, size |-> 8]
                       [] n = ".task_list" -> [virtual_address |-> 8, size |-> task_list_size]],
     task_list |-> <<>>,
     flash_size |-> 48,
     ram_size |-> 32]

SentryImages == {SentryImage(a, z, 0) : a \in {48, 64}, z \in {16, 32}}

\* SentryElf.flash_size
sentry_flash_size(s) == s.flash_size

\* SentryElf.ram_size
sentry_ram_size(s) == s.ram_size

\* a device tree without reserved-memory node
NoDts == [reserved_memory |-> FALSE, tasks_code |-> <<>>, tasks_ram |-> <<>>]

\* The device trees given to the fixed-boundary planner: the bands reserved
\* for the applications (reg = <<base, size>>) lie after the idle task; a
\* node may be missing.
DtsFiles ==
    {NoDts, [reserved_memory |-> TRUE, tasks_code |-> <<>>, tasks_ram |-> <<40, 200>>]}
    \cup {[reserved_memory |-> TRUE, tasks_code |-> <<cb, cs>>, tasks_ram |-> <<40, rs>>] :
            cb \in {96, 100}, cs \in {64, 160}, rs \in {56, 200}}

-----------------------------------------------------------------------------
(* The planner: _internals/gen_memory_layout.py, both revisions *)

\* alignment unit of the fixed-boundary planner
FixedBoundary == 32

\* MemoryRegion / memory.Region
Region(name, type, start_address, size) ==
    [name |-> name, type |-> type, start_address |-> start_address, size |-> size]

\* _add_kernel_regions
_add_kernel_regions(l, s) ==
    LET text_start_addr == get_section_info(s, ".isr_vector")[1]
        ram_start_addr == get_section_info(s, ".bss")[1]
    IN  l \o <<Region("kernel", "text", text_start_addr, sentry_flash_size(s)),
               Region("kernel", "ram", ram_start_addr, sentry_ram_size(s))>>

\* _add_idle_regions: the layout and the returned end addresses
_add_idle_regions(l, s) ==
    LET idle_text == get_section_info(s, ".idle_task")
        idle_ram == get_section_info(s, "._idle")
    IN  [layout |-> l \o <<Region("idle", "text", idle_text[1], idle_text[2]),
                           Region("idle", "ram", idle_ram[1], idle_ram[2])>>,
         slot |-> <<idle_text[1] + idle_text[2], idle_ram[1] + idle_ram[2]>>]

\* a planner that records the ram region before the text region
pmsav7_add_app_regions_swapped(l, app, memory_slot) ==
    LET fsize == pow2_round_up(flash_size(app))
        rsize == pow2_round_up(ram_size(app))
        flash_saddr == align_to(memory_slot[1], fsize)
        ram_saddr == align_to(memory_slot[2], rsize)
    IN  [layout |-> l \o <<Region(app.name, "ram", ram_saddr, rsize),
                           Region(app.name, "text", flash_saddr, fsize)>>,
         slot |-> <<flash_saddr + fsize, ram_saddr + rsize>>,
         error |-> ""]

\* a planner that hands back the start of the regions it placed
pmsav7_add_app_regions_stale(l, app, memory_slot) ==
    LET fsize == pow2_round_up(flash_size(app))
        rsize == pow2_round_up(ram_size(app))
        flash_saddr == align_to(memory_slot[1], fsize)
        ram_saddr == align_to(memory_slot[2], rsize)
    IN  [layout |-> l \o <<Region(app.name, "text", flash_saddr, fsize),
                           Region(app.name, "ram", ram_saddr, rsize)>>,
         slot |-> <<flash_saddr, ram_saddr>>,
         error |-> ""]

\* _add_app_regions of the pyledger revision (PMSAv7: power of two sizes,
\* start aligned on the size)
pmsav7_add_app_regions(l, app, memory_slot) ==
    LET fsize == pow2_round_up(flash_size(app))
        rsize == pow2_round_up(ram_size(app))
        flash_saddr == align_to(memory_slot[1], fsize)
        ram_saddr == align_to(memory_slot[2], rsize)
    IN  [layout |-> l \o <<Region(app.name, "text", flash_saddr, fsize),
                           Region(app.name, "ram", ram_saddr, rsize)>>,
         slot |-> <<flash_saddr + fsize, ram_saddr + rsize>>,
         error |-> ""]

\* _add_app_regions of the barbican revision (32 bytes boundary, ceilings)
fixed_add_app_regions(l, app, memory_slot, code_limit, ram_limit) ==
    LET fsize == align_to(flash_size(app), FixedBoundary)
        rsize == align_to(ram_size(app), FixedBoundary)
        flash_saddr == align_to(memory_slot[1], FixedBoundary)
        ram_saddr == align_to(memory_slot[2], FixedBoundary)
    IN  IF flash_saddr + fsize >= code_limit
        THEN [layout |-> l, slot |-> memory_slot, error |-> "task code region overflow"]
        ELSE IF ram_saddr + rsize >= ram_limit
        THEN [layout |-> l, slot |-> memory_slot, error |-> "ram code region overflow"]
        ELSE [layout |-> l \o <<Region(app.name, "text", flash_saddr, fsize),
                                Region(app.name, "ram", ram_saddr, rsize)>>,
              slot |-> <<flash_saddr + fsize, ram_saddr + rsize>>,
              error |-> ""]

\* the values the variables of the other specifications keep
RelocIdle == elf0 = NoMetadata /\ elf = NoMetadata /\ rpc = "off" /\ rargs = <<>>
ProjIdle == proj = NoMetadata /\ ppc = "off" /\ written = {}
GitIdle == origin = NoMetadata /\ repo = NoMetadata /\ revision = NoMetadata /\ gitop = NoMetadata
ToolIdle == ml = NoMetadata /\ wd = NoMetadata
PureIdle == obj = NoMetadata /\ hist = NoMetadata /\ call = NoMetadata /\ GitIdle /\ ToolIdle

Init ==
    /\ planner \in {"pmsav7", "fixed"}
    /\ sentry \in SentryImages
    /\ dts \in IF planner = "fixed" THEN DtsFiles ELSE {NoDts}
    /\ apps \in AppLists
    /\ pc = "Start"
    /\ layout = <<>>
    /\ next_memory_slot = <<0, 0>>
    /\ limits = <<0, 0>>
    /\ idx = 1
    /\ output = <<>>
    /\ error = ""
    /\ RelocIdle
    /\ ProjIdle
    /\ PureIdle

\* layout = MemoryLayout(); _add_kernel_regions(layout, sentry)
AddKernelRegions ==
    /\ pc = "Start"
    /\ layout' = _add_kernel_regions(layout, sentry)
    /\ pc' = "KernelPlaced"
    /\ UNCHANGED <<planner, sentry, dts, apps, next_memory_slot, limits, idx, output, error>>
    /\ UNCHANGED <<relocVars, projVars, codecVars, utilVars, gitVars, toolVars>>

\* _add_idle_regions(layout, sentry); only the pyledger revision keeps the
\* returned end addresses as the first memory slot
AddIdleRegions ==
    /\ pc = "KernelPlaced"
    /\ layout' = _add_idle_regions(layout, sentry).layout
    /\ next_memory_slot' = IF planner = "pmsav7" THEN _add_idle_regions(layout, sentry).slot
                           ELSE next_memory_slot
    /\ pc' = IF planner = "pmsav7" THEN "IdlePlaced" ELSE "ReadDts"
    /\ UNCHANGED <<planner, sentry, dts, apps, limits, idx, output, error>>
    /\ UNCHANGED <<relocVars, projVars, codecVars, utilVars, gitVars, toolVars>>

\* barbican revision: the reserved-memory nodes give the first slot and the
\* ceilings, a missing node ends the run
ReadReservedMemory ==
    /\ pc = "ReadDts"
    /\ IF ~dts.reserved_memory
       THEN /\ error' = "missing reserved memory node in dts file"
            /\ pc' = "Failed"
            /\ UNCHANGED <<next_memory_slot, limits>>
       ELSE IF dts.tasks_code = <<>> \/ dts.tasks_ram = <<>>
       THEN /\ error' = "missing applications reserved memory node in dts file"
            /\ pc' = "Failed"
            /\ UNCHANGED <<next_memory_slot, limits>>
       ELSE /\ next_memory_slot' = <<dts.tasks_code[1], dts.tasks_ram[1]>>
            /\ limits' = <<dts.tasks_code[1] + dts.tasks_code[2], dts.tasks_ram[1] + dts.tasks_ram[2]>>
            /\ pc' = "IdlePlaced"
            /\ error' = error
    /\ UNCHANGED <<planner, sentry, dts, apps, layout, idx, output>>
    /\ UNCHANGED <<relocVars, projVars, codecVars, utilVars, gitVars, toolVars>>

\* what _add_app_regions does with the next application
AddAppStep ==
    IF planner = "pmsav7"
    THEN pmsav7_add_app_regions(layout, apps[idx], next_memory_slot)
    ELSE fixed_add_app_regions(layout, apps[idx], next_memory_slot, limits[1], limits[2])

\* one turn of: for app in apps: next_memory_slot = _add_app_regions(...)
AddAppRegions ==
    /\ pc \in {"IdlePlaced", "AppPlaced"}
    /\ idx <= Len(apps)
    /\ layout' = AddAppStep.layout
    /\ next_memory_slot' = AddAppStep.slot
    /\ error' = AddAppStep.error
    /\ pc' = IF AddAppStep.error = "" THEN "AppPlaced" ELSE "Failed"
    /\ idx' = IF AddAppStep.error = "" THEN idx + 1 ELSE idx
    /\ UNCHANGED <<planner, sentry, dts, apps, limits, output>>
    /\ UNCHANGED <<relocVars, projVars, codecVars, utilVars, gitVars, toolVars>>

\* layout.save(output) / layout.save_as_json(output)
SaveLayout ==
    /\ pc \in {"IdlePlaced", "AppPlaced"}
    /\ idx > Len(apps)
    /\ output' = layout
    /\ pc' = "Done"
    /\ UNCHANGED <<planner, sentry, dts, apps, layout, next_memory_slot, limits, idx, error>>
    /\ UNCHANGED <<relocVars, projVars, codecVars, utilVars, gitVars, toolVars>>

Next == AddKernelRegions \/ AddIdleRegions \/ ReadReservedMemory \/ AddAppRegions \/ SaveLayout

Spec == Init /\ [][Next]_vars

-----------------------------------------------------------------------------
(* Properties of the planner (specification Spec) *)

\* the regions of one kind, in placement order
RegionsOfKind(l, type) == SelectSeq(l, LAMBDA r : r.type = type)

IsPowerOfTwo(n) == \E k \in 0..30 : n = 2^k

\* the application a region at position i > 4 of the layout belongs to
AppOfRegion(i) == apps[(i - 3) \div 2]

C2_AlignedAndCovering ==
    \A i \in 5..Len(layout) :
        LET r == layout[i]
            footprint == IF r.type = "text" THEN flash_size(AppOfRegion(i))
                         ELSE ram_size(AppOfRegion(i))
        IN  /\ r.size >= footprint
            /\ IF planner = "pmsav7"
               THEN IsPowerOfTwo(r.size) /\ r.start_address % r.size = 0
               ELSE r.start_address % 32 = 0 /\ r.size % 32 = 0

\* a PMSAv7 layout whose first application (33 bytes of flash) was rounded up
\* to 64 bytes and moved up to a 64 bytes boundary
C2_Witness ==
    /\ planner = "pmsav7"
    /\ pc = "Done"
    /\ Len(layout) >= 6
    /\ flash_size(apps[1]) = 33
    /\ layout[5].size = 64
    /\ layout[5].start_address > layout[3].start_address + layout[3].size

\* the regions _add_app_regions of the fixed-boundary planner computes for
\* the next application
CandidateEnds ==
    <<align_to(next_memory_slot[1], 32) + align_to(flash_size(apps[idx]), 32),
      align_to(next_memory_slot[2], 32) + align_to(ram_size(apps[idx]), 32)>>

\* C3: with ceilings configured, placing an application fails with a region
\* overflow exactly when the end of its text region exceeds the flash ceiling
\* or the end of its ram region exceeds the RAM ceiling; a region that ends
\* on the ceiling is accepted and appended.
C3_OverflowExactlyWhenExceeds ==
    /\ (pc = "Failed" /\ error \in {"task code region overflow", "ram code region overflow"})
          => (CandidateEnds[1] > limits[1] \/ CandidateEnds[2] > limits[2])
    /\ (planner = "fixed" /\ pc \in {"AppPlaced", "Done"})
          => \A i \in 5..Len(layout) :
                layout[i].start_address + layout[i].size
                    <= (IF layout[i].type = "text" THEN limits[1] ELSE limits[2])

\* the names and kinds a layout of the given applications holds, in order
RECURSIVE ExpectedEntries(_)
ExpectedEntries(as) ==
    IF as = <<>>
    THEN << <<"kernel", "text">>, <<"kernel", "ram">>, <<"idle", "text">>, <<"idle", "ram">> >>
    ELSE ExpectedEntries(SubSeq(as, 1, Len(as) - 1))
            \o << <<as[Len(as)].name, "text">>, <<as[Len(as)].name, "ram">> >>

Entries(l) == [i \in 1..Len(l) |-> <<l[i].name, l[i].type>>]

IsPrefix(a, b) == Len(a) <= Len(b) /\ \A i \in 1..Len(a) : a[i] = b[i]

\* the entries the layout holds at each position of the planner
LayoutShape ==
    /\ IsPrefix(Entries(layout), ExpectedEntries(apps))
    /\ pc = "Start" => Len(layout) = 0
    /\ pc = "KernelPlaced" => Len(layout) = 2
    /\ pc \in {"ReadDts", "IdlePlaced"} => Len(layout) = 4
    /\ pc = "AppPlaced" => Len(layout) = 4 + 2 * (idx - 1)
    /\ pc = "Done" => output = layout /\ Entries(output) = ExpectedEntries(apps)

\* the planner only moves forward
PcRank(p) ==
    CASE p = "Start" -> 0
      [] p = "KernelPlaced" -> 1
      [] p = "ReadDts" -> 2
      [] p = "IdlePlaced" -> 3
      [] p = "AppPlaced" -> 4
      [] p = "Done" -> 5
      [] p = "Failed" -> 5

LinearStep ==
    /\ IsPrefix(layout, layout')
    /\ PcRank(pc) <= PcRank(pc')
    /\ PcRank(pc) = PcRank(pc') => pc = "AppPlaced" /\ idx' = idx + 1

\* C4: the planner is the linear sequence Start, KernelPlaced, IdlePlaced,
\* AppPlaced*, Done: every layout starts with kernel text, kernel ram, idle
\* text, idle ram, followed for each application, in the order supplied, by
\* its text region and then its ram region; an entry once appended is never
\* reordered or removed, and the document written is that layout.
C4_LinearOrder == [](LayoutShape) /\ [][LinearStep]_vars

\* a saved layout of two applications, the second one the larger
C4_Witness ==
    /\ pc = "Done"
    /\ Len(apps) = 2
    /\ flash_size(apps[1]) < flash_size(apps[2])
    /\ Len(output) = 8

\* the alignment unit of an application region: its own size under PMSAv7,
\* the fixed boundary otherwise
UnitOf(r) == IF planner = "pmsav7" THEN r.size ELSE FixedBoundary

\* C22: the first application's text and ram regions start at the idle
\* task's end addresses, aligned: first start == align_to(idle start + idle
\* size, unit), the idle values being those of the kernel's .idle_task and
\* ._idle sections.
C22_FirstAppAfterIdle ==
    Len(layout) >= 6 =>
        /\ layout[5].start_address
              = align_to(get_section_info(sentry, ".idle_task")[1] + get_section_info(sentry, ".idle_task")[2],
                         UnitOf(layout[5]))
        /\ layout[6].start_address
              = align_to(get_section_info(sentry, "._idle")[1] + get_section_info(sentry, "._idle")[2],
                         UnitOf(layout[6]))

\* C23: of two applications placed one after the other, the later one's text
\* (resp. ram) region starts at align_to(previous start + previous size,
\* unit): the cursor is the end of the region placed last and no more than
\* the alignment padding is left between the two.
C23_NextSlotIsAlignedEnd ==
    \A i \in 7..Len(layout) :
        layout[i].start_address
            = align_to(layout[i - 2].start_address + layout[i - 2].size, UnitOf(layout[i]))

\* a PMSAv7 layout whose second application is larger than the first and
\* starts above the first one's end
C23_Witness ==
    /\ Len(layout) = 8
    /\ planner = "pmsav7"
    /\ layout[7].size > layout[5].size
    /\ layout[7].start_address > layout[5].start_address + layout[5].size

-----------------------------------------------------------------------------
(* AppElf.relocate as a state machine (specification RelocSpec) *)

\* the values the planner's variables keep in the other specifications
LayoutIdle ==
    /\ planner = "off" /\ sentry = NoMetadata /\ dts = NoDts /\ apps = <<>>
    /\ pc = "off" /\ layout = <<>> /\ next_memory_slot = <<0, 0>> /\ limits = <<0, 0>>
    /\ idx = 1 /\ output = <<>> /\ error = ""

\* the GOT contents tried: whole 4-byte entries, pointing into flash (70),
\* at the start of RAM (256), inside RAM (264) and above the heap start (284)
GotWordValues == {70, 256, 264, 284}

GotWordLists == UNION {[1..n -> GotWordValues] : n \in 0..MaxGotWords}

\* values of the extra symbol: below flash, first flash byte, inside flash
\* (80 and 86: in .ARM or in the gap in front of it), between flash and RAM,
\* first RAM byte, inside RAM, above the heap start
ProbeValues == {10, 64, 80, 86, 120, 256, 270, 290}

\* the applications relocated: linked at flash 64 and RAM 256
RelocImages ==
    {AppImage("app1", 64, 256, ts, as, gap, words, 4, 4, TaskMetadata(<<1, 0>>, <<0>>, <<1>>), probe) :
        ts \in {16, 24}, as \in {0, 8}, gap \in {0, 4}, words \in GotWordLists, probe \in ProbeValues}

\* the new flash and RAM starts: below, at and above the link addresses
NewFlashStarts == {32, 64, 128}
NewRamStarts == {192, 256, 288}

RelocInit ==
    /\ elf0 \in RelocImages
    /\ elf = elf0
    /\ rpc = "loaded"
    /\ rargs = <<>>
    /\ LayoutIdle
    /\ ProjIdle
    /\ PureIdle

\* app.relocate(srom, sram) is called
RelocateCall ==
    /\ rpc = "loaded"
    /\ \E srom \in NewFlashStarts, sram \in NewRamStarts : rargs' = <<srom, sram>>
    /\ rpc' = "flash"
    /\ UNCHANGED <<elf0, elf, layoutVars, projVars, codecVars, utilVars, gitVars, toolVars>>

\* _relocate_sections(AppElf.FLASH_SECTIONS, srom)
RelocateFlashSections ==
    /\ rpc = "flash"
    /\ elf' = _relocate_sections(elf, FLASH_SECTIONS, rargs[1])
    /\ rpc' = "ram"
    /\ UNCHANGED <<elf0, rargs, layoutVars, projVars, codecVars, utilVars, gitVars, toolVars>>

\* _relocate_sections(AppElf.RAM_SECTIONS, sram)
RelocateRamSections ==
    /\ rpc = "ram"
    /\ elf' = _relocate_sections(elf, RAM_SECTIONS, rargs[2])
    /\ rpc' = "symtab"
    /\ UNCHANGED <<elf0, rargs, layoutVars, projVars, codecVars, utilVars, gitVars, toolVars>>

\* _symtab_fixup()
SymtabFixup ==
    /\ rpc = "symtab"
    /\ elf' = _symtab_fixup(elf)
    /\ rpc' = "got"
    /\ UNCHANGED <<elf0, rargs, layoutVars, projVars, codecVars, utilVars, gitVars, toolVars>>

\* _got_fixup()
GotFixup ==
    /\ rpc = "got"
    /\ elf' = _got_fixup(elf)
    /\ rpc' = "segment"
    /\ UNCHANGED <<elf0, rargs, layoutVars, projVars, codecVars, utilVars, gitVars, toolVars>>

\* _segment_fixup()
SegmentFixup ==
    /\ rpc = "segment"
    /\ elf' = _segment_fixup(elf)
    /\ rpc' = "done"
    /\ UNCHANGED <<elf0, rargs, layoutVars, projVars, codecVars, utilVars, gitVars, toolVars>>

RelocNext ==
    RelocateCall \/ RelocateFlashSections \/ RelocateRamSections
        \/ SymtabFixup \/ GotFixup \/ SegmentFixup

RelocSpec == RelocInit /\ [][RelocNext]_vars

-----------------------------------------------------------------------------
(* Properties of AppElf.relocate (specification RelocSpec) *)

Addr(e, n) == e.sections[n].virtual_address
Size(e, n) == e.sections[n].size

\* the displacements of the call
FlashDisplacement == rargs[1] - Addr(elf0, ".text")
RamDisplacement == rargs[2] - Addr(elf0, ".svcexchange")

InOriginalFlash(v) == Addr(elf0, ".text") <= v /\ v <= elf0.symbols["_erom"]
InOriginalRam(v) == Addr(elf0, ".svcexchange") <= v /\ v <= elf0.symbols["_sheap"]

C7_SymbolsFollow ==
    rpc = "done" =>
        \A n \in SymbolNames :
            elf.symbols[n] =
                IF InOriginalFlash(elf0.symbols[n]) THEN elf0.symbols[n] + FlashDisplacement
                ELSE IF InOriginalRam(elf0.symbols[n]) THEN elf0.symbols[n] + RamDisplacement
                ELSE elf0.symbols[n]

RECURSIVE Words(_)
\* the 4-byte little-endian words of a GOT content
Words(content) ==
    IF content = <<>> THEN <<>>
    ELSE <<from_bytes(SubSeq(content, 1, 4))>> \o Words(SubSeq(content, 5, Len(content)))

\* C8: the GOT fixup adds the RAM displacement to exactly the words whose
\* value lies in the original RAM range, between the original .svcexchange
\* address and the original (pre-relocation) value of _sheap; every other
\* word is written back unchanged and the order of the words is preserved.
C8_GotWordsInOriginalRam ==
    rpc = "done" =>
        LET before == Words(elf0.got_content)
            after == Words(elf.got_content)
        IN  /\ Len(after) = Len(before)
            /\ \A i \in 1..Len(before) :
                  after[i] = IF InOriginalRam(before[i]) THEN before[i] + RamDisplacement
                             ELSE before[i]

\* C9: after relocate, the segment of .text has virtual = physical = the new
\* .text address, the segment of .svcexchange has virtual = physical = the
\* new .svcexchange address, and the segment of .got has virtual = the new
\* .got address and physical = the relocated _sigot (its original value plus
\* the flash displacement).
C9_SegmentsFollow ==
    rpc = "done" =>
        /\ elf.segments["text_segment"] =
              [virtual_address |-> Addr(elf, ".text"), physical_address |-> Addr(elf, ".text")]
        /\ elf.segments["svc_segment"] =
              [virtual_address |-> Addr(elf, ".svcexchange"),
               physical_address |-> Addr(elf, ".svcexchange")]
        /\ elf.segments["data_segment"] =
              [virtual_address |-> Addr(elf, ".got"),
               physical_address |-> elf0.symbols["_sigot"] + FlashDisplacement]

\* whether a symbol value lay inside a section of the parsed image
InOriginalSection(v, n) == Addr(elf0, n) <= v /\ v < Addr(elf0, n) + Size(elf0, n)

\* C29: relocate keeps every symbol at the same offset inside its section:
\* for each relocated section and each symbol whose original value lay inside
\* that section's original address range, symbol value - section address is
\* the same after the relocation as before, wherever the sections were
\* originally (alignment gaps between consecutive sections included).
C29_SymbolOffsetsKept ==
    rpc = "done" =>
        \A n \in SectionNames, sym \in SymbolNames :
            InOriginalSection(elf0.symbols[sym], n) =>
                elf.symbols[sym] - Addr(elf, n) = elf0.symbols[sym] - Addr(elf0, n)

-----------------------------------------------------------------------------
(* AppElf.relocate over GOT contents of any length (specification GotSpec) *)

\* the contents of .got, byte by byte: the bytes of the words 0x0100 (the
\* first RAM byte), 0x0101, 0x0001 ... and every shorter or longer run of them
GotContents == UNION {[1..n -> {0, 1}] : n \in 0..MaxGotBytes}

GotImages ==
    {AppImageOfBytes("app1", 64, 256, 16, 8, 0, got, 4, 4, TaskMetadata(<<1, 0>>, <<0>>, <<1>>), 10) :
        got \in GotContents}

GotInit ==
    /\ elf0 \in GotImages
    /\ elf = elf0
    /\ rpc = "loaded"
    /\ rargs = <<>>
    /\ LayoutIdle
    /\ ProjIdle
    /\ PureIdle

GotSpec == GotInit /\ [][RelocNext]_vars

RECURSIVE PatchedValues(_, _, _, _)
\* the values _got_fixup hands to addr.to_bytes(chunk_size, "little")
PatchedValues(content, s_ram, e_ram, ram_offset) ==
    IF content = <<>> THEN {}
    ELSE LET n == IF Len(content) < chunk_size THEN Len(content) ELSE chunk_size
             addr == from_bytes(SubSeq(content, 1, n))
         IN  {IF s_ram <= addr /\ addr <= e_ram THEN addr + ram_offset ELSE addr}
                \cup PatchedValues(SubSeq(content, n + 1, Len(content)), s_ram, e_ram, ram_offset)

\* C26: relocate preserves the size of .got: for every GOT content, of any
\* byte length (a multiple of 4 or not), and every displacement, the
\* rewritten content has as many bytes as the original content, and every
\* patched word fits in 4 bytes.
C26_GotSizePreserved ==
    /\ rpc \in {"segment", "done"} =>
          /\ Len(elf.got_content) = Len(elf0.got_content)
          /\ Size(elf, ".got") = Size(elf0, ".got")
    /\ rpc = "got" =>
          \A v \in PatchedValues(elf.got_content, Addr(elf0, ".svcexchange"), elf.symbols["_sheap"],
                                  Addr(elf, ".svcexchange") - Addr(elf0, ".svcexchange")) :
              0 <= v /\ v \div 2^(4 * chunk_size) < 2^(4 * chunk_size)

-----------------------------------------------------------------------------
(* Task metadata: relocation/task_meta.py *)

\* EXIT_MODES
EXIT_MODES == <<"norestart", "restart", "panic", "periodic", "reset">>

\* _exit_mode of the exit_mode setter: JOB_FLAG_EXIT_*
ExitModeValue(mode) ==
    CASE mode = "norestart" -> 0
      [] mode = "restart" -> 1
      [] mode = "panic" -> 2
      [] mode = "periodic" -> 3
      [] mode = "reset" -> 4

\* The raw field of JobFlags and of TaskHandle is a uint32_t: a word is the
\* function from bit positions to bits, so that every 32-bit value (bit 31
\* included) and every mask of the source has a value.
BitPositions == 0..31

\* the word of a number below 2^31
WordOf(n) == [b \in BitPositions |-> IF b = 31 THEN 0 ELSE (n \div 2^b) % 2]

\* the number of a word whose bit 31 is clear
RECURSIVE WordBitsToInt(_, _)
WordBitsToInt(w, b) == IF b > 30 THEN 0 ELSE w[b] + 2 * WordBitsToInt(w, b + 1)

WordToInt(w) == WordBitsToInt(w, 0)

\* a literal 0xhhhhhhhh, given as its eight hexadecimal digits
HexWord(digits) == [b \in BitPositions |-> (digits[8 - (b \div 4)] \div 2^(b % 4)) % 2]

\* x & y
BitAnd(x, y) == [b \in BitPositions |-> x[b] * y[b]]

\* x | y
BitOr(x, y) == [b \in BitPositions |-> IF x[b] = 1 \/ y[b] = 1 THEN 1 ELSE 0]

\* ~x, within the 32 bits the other operand of & holds
BitNot(x) == [b \in BitPositions |-> 1 - x[b]]

\* x << n, for a value that stays within 32 bits
ShiftLeft(x, n) == [b \in BitPositions |-> IF b >= n THEN x[b - n] ELSE 0]

\* x >> n
ShiftRight(x, n) == [b \in BitPositions |-> IF b + n <= 31 THEN x[b + n] ELSE 0]

\* a pack that writes the most significant byte first
PackWordBigEndian(w) ==
    [k \in 1..4 |-> WordToInt([b \in BitPositions |-> IF b < 8 THEN w[8 * (4 - k) + b] ELSE 0])]

\* cstruct pack of a struct { uint32_t raw; }, little endian
PackWord(w) == [k \in 1..4 |-> WordToInt([b \in BitPositions |-> IF b < 8 THEN w[8 * (k - 1) + b] ELSE 0])]

\* a setter that clears the three exit mode bits but stores over four
exit_mode_setter_wide(raw, mode) ==
    BitOr(BitAnd(raw, HexWord(<<15, 15, 15, 15, 15, 15, 15, 1>>)), WordOf(ExitModeValue(mode) * 2 + 1))

\* a setter that only ever sets the flag
autostart_mode_setter_sticky(raw, auto) == BitOr(raw, WordOf(IF auto THEN 1 ELSE 0))

\* JobFlags.autostart_mode getter: self.raw & 0x1 == JOB_FLAG_START_AUTO
autostart_mode(raw) == BitAnd(raw, WordOf(1)) = WordOf(1)

\* JobFlags.autostart_mode setter
autostart_mode_setter(raw, auto) ==
    LET start_mode == IF auto THEN 1 ELSE 0
        cleared == BitAnd(raw, HexWord(<<15, 15, 15, 15, 15, 15, 15, 14>>))
    IN  BitOr(cleared, BitAnd(WordOf(start_mode), WordOf(1)))

\* JobFlags.exit_mode getter: (self.raw >> 1) & 0x7
exit_mode(raw) == WordToInt(BitAnd(ShiftRight(raw, 1), WordOf(7)))

\* JobFlags.exit_mode setter
exit_mode_setter(raw, mode) ==
    LET cleared == BitAnd(raw, HexWord(<<15, 15, 15, 15, 15, 15, 15, 1>>))
    IN  BitOr(cleared, ShiftLeft(BitAnd(WordOf(ExitModeValue(mode)), WordOf(7)), 1))

\* TaskHandle._id_shift
_id_shift == 13

\* a mask of fifteen bits
id_mask_narrow == ShiftLeft(HexWord(<<0, 0, 0, 0, 7, 15, 15, 15>>), _id_shift)

\* TaskHandle._id_mask: 0x0000ffff << _id_shift
_id_mask == ShiftLeft(HexWord(<<0, 0, 0, 0, 15, 15, 15, 15>>), _id_shift)

\* a setter that does not clear the previous id
id_setter_no_clear(raw, id) == BitOr(raw, BitAnd(ShiftLeft(WordOf(id), _id_shift), _id_mask))

\* TaskHandle.id getter: (self.raw & self._id_mask) >> self._id_shift
handle_id(raw) == WordToInt(ShiftRight(BitAnd(raw, _id_mask), _id_shift))

\* TaskHandle.id setter
id_setter(raw, id) ==
    LET cleared == BitAnd(raw, BitNot(_id_mask))
    IN  BitOr(cleared, BitAnd(ShiftLeft(WordOf(id), _id_shift), _id_mask))

\* meta.flags.autostart_mode = auto, on the number of a raw value
set_autostart_mode(raw, auto) == WordToInt(autostart_mode_setter(WordOf(raw), auto))

\* meta.flags.exit_mode = mode, on the number of a raw value
set_exit_mode(raw, mode) == WordToInt(exit_mode_setter(WordOf(raw), mode))

\* meta.handle.id = id, on the number of a raw value
set_handle_id(raw, id) == WordToInt(id_setter(WordOf(raw), id))

\* n bytes with every bit set
Filled(n) == [i \in 1..n |-> 255]

\* n zero bytes (or zero values of an array field)
Zeros(n) == [i \in 1..n |-> 0]

RECURSIVE PackArray(_, _)
\* an array of fields of the given width
PackArray(values, width) ==
    IF values = <<>> THEN <<>>
    ELSE to_bytes(Head(values), width) \o PackArray(Tail(values), width)

\* TaskMeta(): every field zero
NewTaskMeta ==
    [magic |-> 0, version |-> 0, handle |-> 0, priority |-> 0, quantum |-> 0,
     capabilities |-> 0, flags |-> 0, domain |-> 0,
     s_text |-> 0, text_size |-> 0, s_got |-> 0, got_size |-> 0, rodata_size |-> 0,
     data_size |-> 0, bss_size |-> 0, heap_size |-> 0, s_svcexchange |-> 0,
     stack_size |-> 0, entrypoint_offset |-> 0, finalize_offset |-> 0,
     num_shm |-> 0, shms |-> Zeros(4), num_dev |-> 0, devs |-> Zeros(4),
     num_dma |-> 0, dmas |-> Zeros(4),
     task_hmac |-> Zeros(32), metadata_hmac |-> Zeros(32)]

\* TaskMeta.pack(): the fields of the struct in order, little endian, the
\* padding fields pad1..pad6 zero
PackTaskMeta(m) ==
    to_bytes(m.magic, 8) \o to_bytes(m.version, 4) \o to_bytes(m.handle, 4)
        \o to_bytes(m.priority, 1) \o to_bytes(m.quantum, 1) \o Zeros(2)
        \o to_bytes(m.capabilities, 4) \o to_bytes(m.flags, 4)
        \o to_bytes(m.domain, 1) \o Zeros(3)
        \o to_bytes(m.s_text, 4) \o to_bytes(m.text_size, 4)
        \o to_bytes(m.s_got, 4) \o to_bytes(m.got_size, 4)
        \o to_bytes(m.rodata_size, 4) \o to_bytes(m.data_size, 4)
        \o to_bytes(m.bss_size, 4) \o to_bytes(m.heap_size, 4)
        \o to_bytes(m.s_svcexchange, 4)
        \o to_bytes(m.stack_size, 2) \o to_bytes(m.entrypoint_offset, 2)
        \o to_bytes(m.finalize_offset, 2)
        \o to_bytes(m.num_shm, 1) \o Zeros(1) \o PackArray(m.shms, 4)
        \o to_bytes(m.num_dev, 1) \o Zeros(3) \o PackArray(m.devs, 4)
        \o to_bytes(m.num_dma, 1) \o Zeros(3) \o PackArray(m.dmas, 4)
        \o m.task_hmac \o m.metadata_hmac \o Zeros(4)

RECURSIVE DecToInt(_)
\* int(string, base=10) of a string given as its sequence of digit values
DecToInt(digits) ==
    IF digits = <<>> THEN 0
    ELSE 10 * DecToInt(SubSeq(digits, 1, Len(digits) - 1)) + digits[Len(digits)]

\* the keys of the "task" table a record is built from
RequiredMetadata == {"magic_value", "priority", "quantum", "auto_start", "heap_size", "stack_size"}

\* whether every get_package_metadata("task", key) of the generator succeeds
HasRequiredMetadata(e) == RequiredMetadata \subseteq DOMAIN e.metadata

RECURSIVE FirstEnabledMode(_, _)
\* for mode in EXIT_MODES: the first one whose exit_<mode> key is set
FirstEnabledMode(modes, enabled) ==
    IF modes = <<>> THEN "none"
    ELSE IF Head(modes) \in enabled THEN Head(modes)
    ELSE FirstEnabledMode(Tail(modes), enabled)

\* the body of the loop of _generate_task_meta_table for one application,
\* id being the value random.getrandbits(16) returned
BuildTaskMeta(app, id) ==
    LET mode == FirstEnabledMode(EXIT_MODES, app.metadata.exit_modes)
        flags1 == set_autostart_mode(0, app.metadata.auto_start # "")
        text == get_section_info(app, ".text")
        got == get_section_info(app, ".got")
    IN  [NewTaskMeta EXCEPT
            !.magic = HexToInt(app.metadata.magic_value),
            !.version = 1,
            !.handle = set_handle_id(0, id),
            !.priority = DecToInt(app.metadata.priority),
            !.quantum = DecToInt(app.metadata.quantum),
            !.capabilities = 0,
            !.flags = IF mode = "none" THEN flags1 ELSE set_exit_mode(flags1, mode),
            !.domain = 0,
            !.s_text = text[1],
            !.text_size = align_to(text[2], 4) + align_to(get_section_info(app, ".ARM")[2], 4),
            !.s_got = got[1],
            !.got_size = got[2],
            !.s_svcexchange = get_section_info(app, ".svcexchange")[1],
            !.data_size = get_section_info(app, ".data")[2],
            !.bss_size = get_section_info(app, ".bss")[2],
            !.heap_size = HexToInt(app.metadata.heap_size),
            !.stack_size = HexToInt(app.metadata.stack_size),
            !.entrypoint_offset = get_symbol_offset_from_section(app, "_start", ".text")]

-----------------------------------------------------------------------------
(* relocate_project: relocation/relocate.py (specification ProjectSpec) *)

\* a file _get_project_elves did not find
None == [type |-> "absent"]

\* idle.elf, a plain Elf
IdleImage == [type |-> "elf", name |-> "idle"]

\* the memory reserved for the idle task ahead of the applications: 32*1024
IdleReservedSize == 32768

\* an application of a project; without the priority key its metadata is
\* incomplete
ProjectApp(i, p) ==
    LET meta == TaskMetadata(<<1, 0>>, <<0>>, <<i>>)
        image == AppImage("app" \o ToString(i), 64, 256, p.text_size, 0, 0, <<264>>, 4, 4, meta, 0)
    IN  IF p.complete THEN image
        ELSE [image EXCEPT !.metadata = [k \in (DOMAIN meta) \ {"priority"} |-> meta[k]]]

ProjectAppParams == [text_size : {24, 64}, complete : BOOLEAN]

ProjectAppLists ==
    UNION {{[i \in 1..n |-> ProjectApp(i, f[i])] : f \in [1..n -> ProjectAppParams]} : n \in 0..MaxApps}

RECURSIVE InsertByFlashSize(_, _)
\* x put after the elements whose flash_size is not smaller
InsertByFlashSize(sorted, x) ==
    IF sorted = <<>> THEN <<x>>
    ELSE IF flash_size(Head(sorted)) >= flash_size(x)
    THEN <<Head(sorted)>> \o InsertByFlashSize(Tail(sorted), x)
    ELSE <<x>> \o sorted

RECURSIVE SortByFlashSize(_)
\* apps.sort(key=lambda x: x.flash_size, reverse=True): a stable sort
SortByFlashSize(as) ==
    IF as = <<>> THEN <<>>
    ELSE InsertByFlashSize(SortByFlashSize(SubSeq(as, 1, Len(as) - 1)), as[Len(as)])

\* a generator that describes the first application at every turn
generate_record_of_first(as, i, id) == PackTaskMeta(BuildTaskMeta(as[1], id))

\* the record the i-th turn of _generate_task_meta_table appends
generate_record(as, i, id) == PackTaskMeta(BuildTaskMeta(as[i], id))

\* the values random.getrandbits(16) is drawn from
TaskIds == {1, 65535}

\* SentryElf.patch_task_list: the table becomes the content of .task_list
patch_task_list(s, task_meta_tbl) == [s EXCEPT !.task_list = task_meta_tbl]

ProjectInit ==
    /\ proj \in [tool : {"relocate_project", "run_kernel_fixup"},
                 sentry : {None} \cup {SentryImage(48, 16, c) : c \in {200, 1000}},
                 idle : {None, IdleImage},
                 supplied : ProjectAppLists,
                 apps : {<<>>},
                 next_task : {<<0, 0>>},
                 i : {1},
                 placed : {<<>>},
                 metadata : {<<>>},
                 task_meta_tbl : {<<>>},
                 patched : {FALSE},
                 error : {""}]
    /\ ppc = "start"
    /\ written = {}
    /\ LayoutIdle
    /\ RelocIdle
    /\ PureIdle

\* sentry, idle, apps = _get_project_elves(project); apps.sort(...)
SortApps ==
    /\ ppc = "start"
    /\ proj.tool = "relocate_project"
    /\ proj' = [proj EXCEPT !.apps = SortByFlashSize(proj.supplied)]
    /\ ppc' = "idle_info"
    /\ UNCHANGED <<written, layoutVars, relocVars, codecVars, utilVars, gitVars, toolVars>>

\* the first slot after the memory reserved for the idle task; without a
\* kernel ELF, sentry.get_section_info raises
ReadIdleInfo ==
    /\ ppc = "idle_info"
    /\ IF proj.sentry = None
       THEN /\ proj' = [proj EXCEPT !.error = "AttributeError"]
            /\ ppc' = "failed"
       ELSE /\ proj' = [proj EXCEPT !.next_task =
                           <<get_section_info(proj.sentry, ".idle_task")[1] + IdleReservedSize,
                             get_section_info(proj.sentry, "._idle")[1] + IdleReservedSize>>]
            /\ ppc' = "relocate"
    /\ UNCHANGED <<written, layoutVars, relocVars, codecVars, utilVars, gitVars, toolVars>>

\* one turn of the loop of _relocate_apps
RelocateApp ==
    /\ ppc = "relocate"
    /\ proj.i <= Len(proj.apps)
    /\ LET app == proj.apps[proj.i]
           fsize == pow2_round_up(flash_size(app))
           rsize == pow2_round_up(ram_size(app))
           flash_saddr == align_to(proj.next_task[1], fsize)
           ram_saddr == align_to(proj.next_task[2], rsize)
       IN  proj' = [proj EXCEPT
                       !.apps[proj.i] = relocate(app, flash_saddr, ram_saddr),
                       !.placed = Append(@, [name |-> app.name, flash_saddr |-> flash_saddr,
                                             ram_saddr |-> ram_saddr]),
                       !.next_task = <<flash_saddr + fsize, ram_saddr + rsize>>,
                       !.i = @ + 1]
    /\ UNCHANGED <<ppc, written, layoutVars, relocVars, codecVars, utilVars, gitVars, toolVars>>

\* _relocate_apps returns, _generate_task_meta_table starts
BeginTaskMetaTable ==
    /\ ppc = "relocate"
    /\ proj.i > Len(proj.apps)
    /\ proj' = [proj EXCEPT !.i = 1]
    /\ ppc' = "meta"
    /\ UNCHANGED <<written, layoutVars, relocVars, codecVars, utilVars, gitVars, toolVars>>

\* one turn of the loop of _generate_task_meta_table; a missing metadata key
\* raises
GenerateTaskMeta ==
    /\ ppc = "meta"
    /\ proj.i <= Len(proj.apps)
    /\ IF ~HasRequiredMetadata(proj.apps[proj.i])
       THEN /\ proj' = [proj EXCEPT !.error = "MissingMetadata"]
            /\ ppc' = "failed"
       ELSE /\ \E id \in TaskIds :
                 proj' = [proj EXCEPT
                             !.task_meta_tbl = @ \o generate_record(proj.apps, proj.i, id),
                             !.i = @ + 1]
            /\ ppc' = ppc
    /\ UNCHANGED <<written, layoutVars, relocVars, codecVars, utilVars, gitVars, toolVars>>

\* sentry.patch_task_list(task_meta_tbl); a table larger than the section
\* is refused
PatchTaskList ==
    /\ ppc = "meta"
    /\ proj.i > Len(proj.apps)
    /\ IF Len(proj.task_meta_tbl) > get_section_info(proj.sentry, ".task_list")[2]
       THEN /\ proj' = [proj EXCEPT !.error = "SectionTooSmall"]
            /\ ppc' = "failed"
       ELSE /\ proj' = [proj EXCEPT !.sentry = patch_task_list(proj.sentry, proj.task_meta_tbl),
                                    !.patched = TRUE]
            /\ ppc' = "save_sentry"
    /\ UNCHANGED <<written, layoutVars, relocVars, codecVars, utilVars, gitVars, toolVars>>

\* sentry.save(); writing a file may fail
SaveSentry ==
    /\ ppc = "save_sentry"
    /\ \E ok \in BOOLEAN :
          IF ok
          THEN written' = written \cup {proj.sentry.name} /\ ppc' = "save_idle" /\ proj' = proj
          ELSE written' = written /\ ppc' = "failed" /\ proj' = [proj EXCEPT !.error = "OSError"]
    /\ UNCHANGED <<layoutVars, relocVars, codecVars, utilVars, gitVars, toolVars>>

\* idle.save(); without idle.elf, idle is None and the call raises
SaveIdle ==
    /\ ppc = "save_idle"
    /\ IF proj.idle = None
       THEN written' = written /\ ppc' = "failed" /\ proj' = [proj EXCEPT !.error = "AttributeError"]
       ELSE \E ok \in BOOLEAN :
              IF ok
              THEN written' = written \cup {proj.idle.name} /\ ppc' = "save_apps"
                   /\ proj' = [proj EXCEPT !.i = 1]
              ELSE written' = written /\ ppc' = "failed" /\ proj' = [proj EXCEPT !.error = "OSError"]
    /\ UNCHANGED <<layoutVars, relocVars, codecVars, utilVars, gitVars, toolVars>>

\* one turn of: for app in apps: app.remove_notes(); app.save()
SaveApp ==
    /\ ppc = "save_apps"
    /\ proj.i <= Len(proj.apps)
    /\ \E ok \in BOOLEAN :
          IF ok
          THEN written' = written \cup {proj.apps[proj.i].name} /\ ppc' = ppc
               /\ proj' = [proj EXCEPT !.i = @ + 1]
          ELSE written' = written /\ ppc' = "failed" /\ proj' = [proj EXCEPT !.error = "OSError"]
    /\ UNCHANGED <<layoutVars, relocVars, codecVars, utilVars, gitVars, toolVars>>

\* relocate_project returns
ProjectDone ==
    /\ ppc = "save_apps"
    /\ proj.i > Len(proj.apps)
    /\ ppc' = "done"
    /\ UNCHANGED <<proj, written, layoutVars, relocVars, codecVars, utilVars, gitVars, toolVars>>

\* run_gen_task_metadata_bin for the next application package: barbican.py
\* fills the planner's executable list and the list of metadata files in the
\* same package order, and each metadata file describes the ELF linked at the
\* planned addresses
GenTaskMetadataBin ==
    /\ ppc = "start"
    /\ proj.tool = "run_kernel_fixup"
    /\ proj.i <= Len(proj.supplied)
    /\ LET app == proj.supplied[proj.i]
       IN  IF ~HasRequiredMetadata(app)
           THEN /\ proj' = [proj EXCEPT !.error = "MissingMetadata"]
                /\ ppc' = "failed"
           ELSE /\ \E id \in TaskIds :
                     proj' = [proj EXCEPT
                                 !.metadata = Append(@, generate_record(proj.supplied, proj.i, id)),
                                 !.placed = Append(@, [name |-> app.name,
                                                       flash_saddr |-> get_section_info(app, ".text")[1],
                                                       ram_saddr |-> get_section_info(app, ".svcexchange")[1]]),
                                 !.i = @ + 1]
                /\ ppc' = ppc
    /\ UNCHANGED <<written, layoutVars, relocVars, codecVars, utilVars, gitVars, toolVars>>

RECURSIVE ExtendAll(_, _)
\* for datum in metadata: task_meta_tbl.extend(datum.read_bytes())
ExtendAll(task_meta_tbl, metadata) ==
    IF metadata = <<>> THEN task_meta_tbl
    ELSE ExtendAll(task_meta_tbl \o Head(metadata), Tail(metadata))

\* run_kernel_fixup: the metadata files concatenated in the order of the
\* argument list, patched into the kernel, the kernel saved
RunKernelFixup ==
    /\ ppc = "start"
    /\ proj.tool = "run_kernel_fixup"
    /\ proj.i > Len(proj.supplied)
    /\ LET task_meta_tbl == ExtendAll(<<>>, proj.metadata)
       IN  IF proj.sentry = None
           THEN written' = written /\ ppc' = "failed"
                /\ proj' = [proj EXCEPT !.error = "FileNotFoundError"]
           ELSE IF Len(task_meta_tbl) > get_section_info(proj.sentry, ".task_list")[2]
           THEN written' = written /\ ppc' = "failed"
                /\ proj' = [proj EXCEPT !.error = "SectionTooSmall", !.task_meta_tbl = task_meta_tbl]
           ELSE \E ok \in BOOLEAN :
                  LET patched == [proj EXCEPT !.task_meta_tbl = task_meta_tbl, !.patched = TRUE,
                                              !.sentry = patch_task_list(proj.sentry, task_meta_tbl)]
                  IN  IF ok
                      THEN written' = written \cup {proj.sentry.name} /\ ppc' = "done"
                           /\ proj' = patched
                      ELSE written' = written /\ ppc' = "failed"
                           /\ proj' = [patched EXCEPT !.error = "OSError"]
    /\ UNCHANGED <<layoutVars, relocVars, codecVars, utilVars, gitVars, toolVars>>

ProjectNext ==
    SortApps \/ ReadIdleInfo \/ RelocateApp \/ BeginTaskMetaTable \/ GenerateTaskMeta
        \/ PatchTaskList \/ SaveSentry \/ SaveIdle \/ SaveApp \/ ProjectDone
        \/ GenTaskMetadataBin \/ RunKernelFixup

ProjectSpec == ProjectInit /\ [][ProjectNext]_vars

-----------------------------------------------------------------------------
(* Properties of relocate_project (specification ProjectSpec) *)

\* a field of the i-th record of a table of 200 bytes records
RecordField(tbl, i, offset, width) ==
    from_bytes(SubSeq(tbl, (i - 1) * 200 + offset + 1, (i - 1) * 200 + offset + width))

\* the application of the given name, as it was supplied
SuppliedApp(name) == CHOOSE a \in {proj.supplied[k] : k \in 1..Len(proj.supplied)} : a.name = name

\* C5: the task metadata table patched into the kernel is N records of 200
\* bytes back to back for N applications, and the i-th record is the metadata
\* of the i-th application placed in memory: its magic is that application's
\* and its s_text and s_svcexchange are the addresses the i-th placement
\* assigned.
C5_TableFollowsPlacement ==
    proj.patched =>
        LET tbl == proj.sentry.task_list
        IN  /\ Len(proj.placed) = Len(proj.supplied)
            /\ Len(tbl) = 200 * Len(proj.placed)
            /\ \A i \in 1..Len(proj.placed) :
                  /\ RecordField(tbl, i, 0, 8) = HexToInt(SuppliedApp(proj.placed[i].name).metadata.magic_value)
                  /\ RecordField(tbl, i, 32, 4) = proj.placed[i].flash_saddr
                  /\ RecordField(tbl, i, 64, 4) = proj.placed[i].ram_saddr

\* a patched kernel of a project whose two applications were placed in the
\* reverse of the order they were supplied in
C5_Witness ==
    /\ proj.patched
    /\ proj.tool = "relocate_project"
    /\ Len(proj.supplied) = 2
    /\ proj.placed[1].name = proj.supplied[2].name
    /\ proj.placed[2].name = proj.supplied[1].name
    /\ Len(proj.sentry.task_list) = 400

\* the output files of a complete run
AllOutputs ==
    IF proj.tool = "run_kernel_fixup" THEN {proj.sentry.name}
    ELSE {proj.sentry.name, proj.idle.name} \cup {proj.apps[k].name : k \in 1..Len(proj.apps)}

\* C10: a failure at any step (relocation, metadata generation, kernel patch,
\* writing an output) leaves no output file behind: the outputs are either
\* all written or none is.
C10_AllOrNothing ==
    /\ ppc = "failed" => written = {}
    /\ ppc = "done" => written = AllOutputs

-----------------------------------------------------------------------------
(* Properties of the records of the metadata generators (ProjectSpec) *)

\* TaskMeta().sizeof()
TaskMetaSize == Len(PackTaskMeta(NewTaskMeta))

\* the offsets of the bytes of pad1 .. pad6 in a packed record
PaddingOffsets == {18, 19} \cup 29..31 \cup {75} \cup 93..95 \cup 113..115 \cup 196..199

\* the k-th stretch of TaskMetaSize bytes of a table
RecordOf(tbl, k) == SubSeq(tbl, (k - 1) * TaskMetaSize + 1, k * TaskMetaSize)

\* the records packed so far: the metadata files of run_gen_task_metadata_bin
\* and the records _generate_task_meta_table appended to its table
PackedRecords ==
    {proj.metadata[k] : k \in 1..Len(proj.metadata)}
        \cup {RecordOf(proj.task_meta_tbl, k) : k \in 1..(Len(proj.task_meta_tbl) \div TaskMetaSize)}

\* C11: every packed TaskMeta record has the same fixed length, 200 bytes, a
\* multiple of 8 (each turn of the generator extends the table by exactly
\* that much), and the bytes of pad1 .. pad6 of every record built by the
\* metadata generators are zero.
C11_FixedSizeZeroPadding ==
    /\ TaskMetaSize = 200
    /\ TaskMetaSize % 8 = 0
    /\ (ppc = "meta" /\ proj.tool = "relocate_project") =>
            Len(proj.task_meta_tbl) = (proj.i - 1) * 200
    /\ \A r \in PackedRecords :
          /\ Len(r) = 200
          /\ \A o \in PaddingOffsets : r[o + 1] = 0

\* two records in the table, and a metadata file, whose fields next to the
\* padding are not zero
C11_Witness ==
    \/ /\ ppc = "meta"
       /\ Len(proj.task_meta_tbl) = 400
       /\ \A k \in 1..2 : RecordOf(proj.task_meta_tbl, k)[17] # 0 /\ RecordOf(proj.task_meta_tbl, k)[18] # 0
    \/ /\ Len(proj.metadata) = 2
       /\ \A k \in 1..2 : proj.metadata[k][17] # 0 /\ proj.metadata[k][18] # 0

\* TaskHandle.id of the handle field (offset 12) of a packed record
HandleIdOf(r) == (from_bytes(SubSeq(r, 13, 16)) \div 2^_id_shift) % 65536

\* the records of one build, in order
RecordsOfBuild ==
    IF proj.tool = "run_kernel_fixup" THEN proj.metadata
    ELSE [k \in 1..(Len(proj.task_meta_tbl) \div TaskMetaSize) |-> RecordOf(proj.task_meta_tbl, k)]

\* C12: the 16-bit task ids of the handles are unique within one build: no
\* two records generated for the applications of a project carry the same
\* handle id.
C12_UniqueHandleIds ==
    \A j, k \in 1..Len(RecordsOfBuild) :
        j # k => HandleIdOf(RecordsOfBuild[j]) # HandleIdOf(RecordsOfBuild[k])

-----------------------------------------------------------------------------
(* The text range of the task metadata and the planner's region (Spec) *)

\* C30: for every application, the text range its task metadata declares
\* fits in the text region the planner allotted to it: text_size, that is
\* align_to(size(.text), 4) + align_to(size(.ARM), 4), is at most the size
\* of the region, which is flash_size (size(.text) + size(.ARM)) rounded up
\* to the alignment unit, whatever the section sizes.
C30_TextRangeFitsRegion ==
    \A i \in 5..Len(layout) :
        layout[i].type = "text" =>
            BuildTaskMeta(AppOfRegion(i), 1).text_size <= layout[i].size

-----------------------------------------------------------------------------
(* Order of the steps of relocate_project (ProjectSpec) *)

\* C24: applications are placed and relocated in the order they were
\* supplied in: the k-th application placed is the k-th application supplied,
\* whatever their flash or RAM sizes.
C24_PlacedInSuppliedOrder ==
    \A k \in 1..Len(proj.placed) : proj.placed[k].name = proj.supplied[k].name

\* the number of records in the table under construction
RecordCount == Len(proj.task_meta_tbl) \div TaskMetaSize

\* what holds at every point of relocate_project
RelocateProjectOrder ==
    proj.tool = "relocate_project" =>
        /\ Len(proj.task_meta_tbl) > 0 => Len(proj.placed) = Len(proj.supplied)
        /\ proj.patched =>
              /\ RecordCount = Len(proj.supplied)
              /\ proj.sentry.task_list = proj.task_meta_tbl
        /\ written # {} =>
              /\ proj.patched
              /\ Len(proj.placed) = Len(proj.supplied)
        /\ \A k \in 1..RecordCount :
              /\ RecordField(proj.task_meta_tbl, k, 32, 4) = proj.placed[k].flash_saddr
              /\ RecordField(proj.task_meta_tbl, k, 32, 4) = get_section_info(proj.apps[k], ".text")[1]
              /\ RecordField(proj.task_meta_tbl, k, 40, 4) = get_section_info(proj.apps[k], ".got")[1]
              /\ RecordField(proj.task_meta_tbl, k, 40, 4)
                    = proj.placed[k].ram_saddr + get_section_info(proj.apps[k], ".svcexchange")[2]
              /\ RecordField(proj.task_meta_tbl, k, 64, 4) = proj.placed[k].ram_saddr
              /\ RecordField(proj.task_meta_tbl, k, 64, 4) = get_section_info(proj.apps[k], ".svcexchange")[1]

\* once a record exists no application is relocated any more, and a patched
\* kernel is not patched again
RelocateProjectStep ==
    /\ (proj.tool = "relocate_project" /\ Len(proj.task_meta_tbl) > 0) =>
            /\ proj'.placed = proj.placed
            /\ proj'.apps = proj.apps
    /\ (proj.tool = "relocate_project" /\ proj.patched) =>
            /\ proj'.patched
            /\ proj'.sentry = proj.sentry

\* C25: in relocate_project every relocation is complete before any metadata
\* record is generated, the kernel is patched once, with the full table, and
\* no ELF is written before all relocations and the kernel patch succeeded;
\* the s_text, s_got and s_svcexchange of each record are the addresses the
\* application has after its relocation.
C25_RelocateThenDescribeThenWrite == [](RelocateProjectOrder) /\ [][RelocateProjectStep]_vars

\* a complete run of relocate_project over two applications, every file
\* written, whose records hold addresses the relocation assigned
C25_Witness ==
    /\ ppc = "done"
    /\ proj.tool = "relocate_project"
    /\ Len(proj.supplied) = 2
    /\ written = AllOutputs
    /\ RecordCount = 2
    /\ \A k \in 1..2 :
          RecordField(proj.task_meta_tbl, k, 32, 4) # get_section_info(proj.supplied[k], ".text")[1]

-----------------------------------------------------------------------------
(* JobFlags and TaskHandle: relocation/task_meta.py (specification          *)
(* CodecSpec). One object, fresh or unpacked from any four bytes, and the   *)
(* assignments made to its properties.                                      *)

\* JobFlags() / TaskHandle(): raw is zero
FreshWord == WordOf(0)

\* the raw values an object starts from: a fresh one, and unpacked ones
StartWords ==
    {FreshWord,
     HexWord(<<15, 15, 15, 15, 15, 15, 15, 15>>),
     HexWord(<<10, 10, 10, 10, 10, 10, 10, 10>>),
     HexWord(<<5, 5, 5, 5, 5, 5, 5, 5>>)}

\* the ids assigned: those of test_taskh_id and the ends of the range
HandleIds == {0, 1, 42, 12354, 32768, 65535}

CodecInit ==
    /\ obj \in [class : {"JobFlags", "TaskHandle"}, raw : StartWords]
    /\ hist = [fresh |-> obj.raw = FreshWord, autostart |-> -1, exit_mode |-> "none", id |-> -1,
               op |-> "none", before |-> obj.raw]
    /\ call = NoMetadata
    /\ GitIdle
    /\ ToolIdle
    /\ LayoutIdle
    /\ RelocIdle
    /\ ProjIdle

\* job_flags.autostart_mode = auto
AssignAutostartMode ==
    /\ obj # NoMetadata
    /\ obj.class = "JobFlags"
    /\ \E auto \in BOOLEAN :
          /\ obj' = [obj EXCEPT !.raw = autostart_mode_setter(obj.raw, auto)]
          /\ hist' = [hist EXCEPT !.autostart = IF auto THEN 1 ELSE 0,
                                  !.op = "autostart_mode", !.before = obj.raw]
    /\ UNCHANGED <<layoutVars, relocVars, projVars, utilVars, gitVars, toolVars>>

\* job_flags.exit_mode = mode
AssignExitMode ==
    /\ obj # NoMetadata
    /\ obj.class = "JobFlags"
    /\ \E k \in 1..Len(EXIT_MODES) :
          /\ obj' = [obj EXCEPT !.raw = exit_mode_setter(obj.raw, EXIT_MODES[k])]
          /\ hist' = [hist EXCEPT !.exit_mode = EXIT_MODES[k],
                                  !.op = "exit_mode", !.before = obj.raw]
    /\ UNCHANGED <<layoutVars, relocVars, projVars, utilVars, gitVars, toolVars>>

\* taskh.id = id
AssignHandleId ==
    /\ obj # NoMetadata
    /\ obj.class = "TaskHandle"
    /\ \E id \in HandleIds :
          /\ obj' = [obj EXCEPT !.raw = id_setter(obj.raw, id)]
          /\ hist' = [hist EXCEPT !.id = id, !.op = "id", !.before = obj.raw]
    /\ UNCHANGED <<layoutVars, relocVars, projVars, utilVars, gitVars, toolVars>>

CodecNext == AssignAutostartMode \/ AssignExitMode \/ AssignHandleId

CodecSpec == CodecInit /\ [][CodecNext]_vars

-----------------------------------------------------------------------------
(* Properties of JobFlags and TaskHandle (specification CodecSpec) *)

\* bit n of a number
BitOfInt(v, n) == (v \div 2^n) % 2

\* the bits of the id subfield
IdBits == 13..28

\* C13: for every id of 0..0xffff and every prior state of a TaskHandle,
\* reading id after assigning it returns exactly the id assigned.
C13_HandleIdRoundTrip ==
    (obj.class = "TaskHandle" /\ hist.op = "id") => handle_id(obj.raw) = hist.id

\* an id assigned over a handle whose id bits were all set
C13_Witness ==
    /\ obj.class = "TaskHandle"
    /\ hist.op = "id"
    /\ hist.id = 42
    /\ \A b \in IdBits : hist.before[b] = 1

\* C14: assigning TaskHandle.id writes the id into bits 13..28 and leaves
\* every other bit as it was; on a fresh handle, after any sequence of id
\* assignments, pack() is the 4-byte little-endian encoding of the last id
\* shifted by 13 and the bits outside the id subfield (family, rerun) are zero.
C14_HandleIdBits ==
    (obj.class = "TaskHandle" /\ hist.op = "id") =>
        /\ \A b \in BitPositions :
              obj.raw[b] = IF b \in IdBits THEN BitOfInt(hist.id, b - 13) ELSE hist.before[b]
        /\ hist.fresh =>
              /\ PackWord(obj.raw) = to_bytes(hist.id * 2^13, 4)
              /\ \A b \in BitPositions \ IdBits : obj.raw[b] = 0

\* the id 0xffff assigned to a handle that was fresh and already held an id
C14_Witness ==
    /\ obj.class = "TaskHandle"
    /\ hist.op = "id"
    /\ hist.fresh
    /\ hist.id = 65535
    /\ hist.before # FreshWord

\* C15: for both autostart values and each of the five exit modes, once
\* both were assigned to a JobFlags, in either order, autostart_mode reads
\* the autostart value and exit_mode reads the number of the mode
\* (norestart 0, restart 1, panic 2, periodic 3, reset 4).
C15_JobFlagsRoundTrip ==
    (obj.class = "JobFlags" /\ hist.autostart # -1 /\ hist.exit_mode # "none") =>
        /\ autostart_mode(obj.raw) = (hist.autostart = 1)
        /\ exit_mode(obj.raw) =
              CASE hist.exit_mode = "norestart" -> 0
                [] hist.exit_mode = "restart" -> 1
                [] hist.exit_mode = "panic" -> 2
                [] hist.exit_mode = "periodic" -> 3
                [] hist.exit_mode = "reset" -> 4

\* autostart cleared after the exit mode was set, on flags whose bit 0 was set
C15_Witness ==
    /\ obj.class = "JobFlags"
    /\ hist.op = "autostart_mode"
    /\ hist.autostart = 0
    /\ hist.exit_mode = "reset"
    /\ hist.before[0] = 1

\* C16: whatever the 32-bit value of a JobFlags, assigning autostart_mode
\* changes at most bit 0 and assigning exit_mode changes at most bits 1..3;
\* so the value read from the other subfield is the same before and after.
C16_JobFlagsFrame ==
    /\ (obj.class = "JobFlags" /\ hist.op = "autostart_mode") =>
          /\ \A b \in BitPositions \ {0} : obj.raw[b] = hist.before[b]
          /\ exit_mode(obj.raw) = exit_mode(hist.before)
    /\ (obj.class = "JobFlags" /\ hist.op = "exit_mode") =>
          /\ \A b \in BitPositions \ 1..3 : obj.raw[b] = hist.before[b]
          /\ autostart_mode(obj.raw) = autostart_mode(hist.before)

\* an exit mode assigned to flags whose autostart bit is clear and whose
\* upper bits are set, changing the exit mode bits
C16_Witness ==
    /\ obj.class = "JobFlags"
    /\ hist.op = "exit_mode"
    /\ hist.before[0] = 0
    /\ hist.before[31] = 1
    /\ exit_mode(obj.raw) # exit_mode(hist.before)

\* C17: after any sequence of autostart_mode and exit_mode assignments on a
\* fresh JobFlags, pack() is the 4-byte little-endian encoding of a + 2 * m,
\* a the last autostart value assigned (0 if none) and m the number of the
\* last exit mode assigned (0 if none); bits 4..31 are zero.
C17_JobFlagsPack ==
    (obj.class = "JobFlags" /\ hist.fresh) =>
        LET a == IF hist.autostart = 1 THEN 1 ELSE 0
            m == IF hist.exit_mode = "none" THEN 0 ELSE ExitModeValue(hist.exit_mode)
        IN  /\ PackWord(obj.raw) = to_bytes(a + 2 * m, 4)
            /\ \A b \in 4..31 : obj.raw[b] = 0

\* test_jobflags_serialize: autostart and then reset give 09 00 00 00
C17_Witness ==
    /\ obj.class = "JobFlags"
    /\ hist.fresh
    /\ hist.autostart = 1
    /\ hist.exit_mode = "reset"
    /\ PackWord(obj.raw) = <<9, 0, 0, 0>>

-----------------------------------------------------------------------------
(* The functions of utils/__init__.py (specification UtilsSpec): one call   *)
(* of one function on arguments drawn from the sets below.                  *)

\* exponents around the widths that matter: 32-bit addresses, and the 53
\* bits of the mantissa of a double
LargeExponents == {12, 30, 31, 32, 47, 48, 49, 50, 52}

NumInputs ==
    {Zero} \cup UNION {{Num(k, d) : d \in {e \in 0..MaxOff : e < Pow2(k)}} : k \in 0..MaxSmallExp}
           \cup {Num(k, d) : k \in LargeExponents, d \in 0..MaxOff}

UtilsInit ==
    /\ call \in [fn : {"none"}, n : NumInputs, x : 0..MaxAlignArg, a : 1..MaxAlignment, result : {0}]
    /\ obj = NoMetadata
    /\ hist = NoMetadata
    /\ GitIdle
    /\ ToolIdle
    /\ LayoutIdle
    /\ RelocIdle
    /\ ProjIdle

\* pow2_round_up(n): result is the exponent of the power of two returned
CallPow2RoundUp ==
    /\ call # NoMetadata
    /\ call.fn = "none"
    /\ call' = [call EXCEPT !.fn = "pow2_round_up", !.result = pow2_round_up_exponent(call.n)]
    /\ UNCHANGED <<layoutVars, relocVars, projVars, codecVars, gitVars, toolVars>>

\* pow2_greatest_divisor(n), n >= 1: result is the exponent of the power of
\* two returned
CallPow2GreatestDivisor ==
    /\ call # NoMetadata
    /\ call.fn = "none"
    /\ call.n # Zero
    /\ call' = [call EXCEPT !.fn = "pow2_greatest_divisor", !.result = pow2_greatest_divisor(call.n)]
    /\ UNCHANGED <<layoutVars, relocVars, projVars, codecVars, gitVars, toolVars>>

\* align_to(x, a)
CallAlignTo ==
    /\ call # NoMetadata
    /\ call.fn = "none"
    /\ call' = [call EXCEPT !.fn = "align_to", !.result = align_to(call.x, call.a)]
    /\ UNCHANGED <<layoutVars, relocVars, projVars, codecVars, gitVars, toolVars>>

UtilsNext == CallPow2RoundUp \/ CallPow2GreatestDivisor \/ CallAlignTo

UtilsSpec == UtilsInit /\ [][UtilsNext]_vars

-----------------------------------------------------------------------------
(* Properties of the functions of utils (specification UtilsSpec) *)

\* 2**j >= n
PowAtLeast(j, n) == n = Zero \/ j > n.exp \/ (j = n.exp /\ n.off = 0)

\* C18: pow2_round_up(0) is 1, and for x > 0 pow2_round_up(x) is the
\* smallest power of two that is >= x, so that it is x itself exactly when x
\* is a power of two.
C18_SmallestPowerOfTwoAbove ==
    (call.fn = "pow2_round_up") =>
        IF call.n = Zero THEN call.result = 0
        ELSE /\ PowAtLeast(call.result, call.n)
             /\ call.result = 0 \/ ~PowAtLeast(call.result - 1, call.n)
             /\ (call.result = call.n.exp /\ call.n.off = 0) <=> (call.n.off = 0)

\* C19: for x >= 0 and a >= 1, align_to(x, a) is the smallest multiple of a
\* that is >= x; it is x itself exactly when x is a multiple of a.
C19_SmallestMultipleAbove ==
    (call.fn = "align_to") =>
        /\ call.result % call.a = 0
        /\ call.result >= call.x
        /\ call.result - call.a < call.x
        /\ (call.result = call.x) <=> (call.x % call.a = 0)

\* an argument that is not a multiple, moved up, and one that is, kept
C19_Witness ==
    /\ call.fn = "align_to"
    /\ \/ call.x = 13 /\ call.a = 4 /\ call.result = 16
       \/ call.x = 12 /\ call.a = 4 /\ call.result = 12

\* whether the number is odd
IsOdd(n) == IF n.exp = 0 THEN TRUE ELSE n.off % 2 = 1

\* C20: for x >= 1, pow2_greatest_divisor(x) is the largest power of two
\* that divides x: 1 for every odd x, x itself when x is a power of two.
C20_LargestPowerOfTwoDividing ==
    (call.fn = "pow2_greatest_divisor") =>
        /\ PowDivides(call.result, call.n)
        /\ ~PowDivides(call.result + 1, call.n)
        /\ IsOdd(call.n) => call.result = 0
        /\ call.n.off = 0 => call.result = call.n.exp

\* an even number beyond 2**50, that pow2_round_up does not round up: two
\* divides 2**50 + 2 and four does not
C20_Witness ==
    /\ call.fn = "pow2_greatest_divisor"
    /\ call.n = Num(50, 2)
    /\ pow2_round_up_exponent(call.n) = 50
    /\ call.result = 1

-----------------------------------------------------------------------------
(* Git: barbican/scm/git.py, under ScmBaseClass.download / update of        *)
(* scm/scm.py (specification GitSpec).  Commits are numbered in the order   *)
(* they are made on origin; a repository is the record of its refs and of   *)
(* the commits it holds.                                                    *)

\* the branch names a revision may spell; origin never has "pouette"
BranchNames == {"main", "dev", "pouette"}

\* a revision naming a branch, and one naming a commit by its sha
RevBranch(name) == [kind |-> "branch", name |-> name, sha |-> 0]
RevSha(c) == [kind |-> "sha", name |-> "", sha |-> c]

\* the sha of a commit no repository holds ("a" * 40)
UnknownSha == 99

Revisions == {RevBranch(b) : b \in BranchNames} \cup {RevSha(c) : c \in 1..MaxCommits \cup {UnknownSha}}

\* Repo(package.src_dir) raised NoSuchPathError: no _repo attribute
NotCloned == [cloned |-> FALSE]

NoBranch == [b \in BranchNames |-> 0]

RECURSIVE Reach(_, _)
\* the commits reachable from c
Reach(parent, c) == IF c = 0 THEN {} ELSE {c} \cup Reach(parent, parent[c])

\* the commits reachable from the branches of origin
OriginObjects(o) == UNION {Reach(o.parent, o.tips[b]) : b \in BranchNames}

\* Git.is_hex_sha
is_hex_sha(rev) == rev.kind = "sha"

\* Git.is_valid_commit_sha
is_valid_commit_sha(r, rev) == is_hex_sha(rev) /\ rev.sha \in r.objects

\* Repo.clone_from(url, to_path, no_checkout=True): every branch is fetched,
\* HEAD is the default branch of origin
clone_from(o) ==
    [cloned |-> TRUE, head |-> o.tips["main"], branch |-> "main",
     heads |-> [NoBranch EXCEPT !["main"] = o.tips["main"]],
     remotes |-> o.tips, objects |-> OriginObjects(o), fetchspec |-> "*", dirty |-> FALSE]

\* Repo.clone_from(url, to_path, branch=b, single_branch=True)
clone_from_branch(o, b) ==
    [cloned |-> TRUE, head |-> o.tips[b], branch |-> b,
     heads |-> [NoBranch EXCEPT ![b] = o.tips[b]],
     remotes |-> [NoBranch EXCEPT ![b] = o.tips[b]],
     objects |-> Reach(o.parent, o.tips[b]), fetchspec |-> b, dirty |-> FALSE]

\* the outcome of a step: the repository it leaves and whether it raised
Outcome(r, raised) == [repo |-> r, raised |-> raised]

\* Git._checkout
_checkout(r, rev) ==
    IF ~is_valid_commit_sha(r, rev) THEN Outcome(r, TRUE)
    ELSE Outcome([r EXCEPT !.head = rev.sha, !.branch = ""], FALSE)

\* Git.clone
clone(o, rev) ==
    IF is_hex_sha(rev) THEN _checkout(clone_from(o), rev)
    ELSE IF o.tips[rev.name] = 0 THEN Outcome(NotCloned, TRUE)
    ELSE Outcome(clone_from_branch(o, rev.name), FALSE)

\* self._repo.remotes.origin.fetch(refspec=self.revision): the commit
\* fetched (0 when origin has no such ref or object) and the repository
\* after the fetch; a remote-tracking branch follows when the clone tracks it
origin_fetch(r, o, rev) ==
    LET commit == IF is_hex_sha(rev)
                  THEN IF rev.sha \in OriginObjects(o) THEN rev.sha ELSE 0
                  ELSE o.tips[rev.name]
        tracked == ~is_hex_sha(rev) /\ r.fetchspec \in {"*", rev.name}
    IN  [commit |-> commit,
         repo |-> IF commit = 0 THEN r
                  ELSE [r EXCEPT !.objects = @ \cup Reach(o.parent, commit),
                                 !.remotes = IF tracked THEN [@ EXCEPT ![rev.name] = commit] ELSE @]]

\* self._repo.git.switch(self.revision): the local branch, or a new one
\* created from the remote-tracking branch of that name
git_switch(r, name) ==
    IF r.heads[name] # 0 THEN Outcome([r EXCEPT !.head = r.heads[name], !.branch = name], FALSE)
    ELSE IF r.remotes[name] # 0
    THEN Outcome([r EXCEPT !.heads[name] = r.remotes[name], !.head = r.remotes[name], !.branch = name], FALSE)
    ELSE Outcome(r, TRUE)

\* a reset that leaves the branch where it is
reset_head_nowhere(r, commit) == Outcome(r, FALSE)

\* Git._reset_head: self._repo.head.reset(sha) moves the current branch
_reset_head(r, commit) ==
    IF commit \notin r.objects THEN Outcome(r, TRUE)
    ELSE Outcome([r EXCEPT !.head = commit,
                           !.heads = IF r.branch = "" THEN @ ELSE [@ EXCEPT ![r.branch] = commit]], FALSE)

\* Git._reset: git reset --hard str(self.revision), whatever commit it is
\* given: the name is resolved in the local repository
_reset(r, rev, commit) ==
    LET target == IF is_hex_sha(rev) THEN rev.sha
                  ELSE IF r.heads[rev.name] # 0 THEN r.heads[rev.name] ELSE r.remotes[rev.name]
    IN  IF target = 0 \/ target \notin r.objects THEN Outcome(r, TRUE)
        ELSE Outcome([r EXCEPT !.head = target, !.dirty = FALSE,
                               !.heads = IF r.branch = "" THEN @ ELSE [@ EXCEPT ![r.branch] = target]], FALSE)

\* Git.fetch; active_branch != self.revision compares a Head with a str and
\* is always true, so a branch revision is always switched to
fetch(r, o, rev) ==
    LET fetched == origin_fetch(r, o, rev)
    IN  IF fetched.commit = 0 THEN Outcome(r, TRUE)
        ELSE IF is_hex_sha(rev) THEN _checkout(fetched.repo, rev)
        ELSE LET switched == git_switch(fetched.repo, rev.name)
                 moved == _reset_head(switched.repo, fetched.commit)
             IN  IF switched.raised THEN switched
                 ELSE IF moved.raised THEN moved
                 ELSE _reset(moved.repo, rev, fetched.commit)

\* the commit a revision designates on origin, 0 when it designates none
Designates(o, rev) ==
    IF is_hex_sha(rev) THEN IF rev.sha \in OriginObjects(o) THEN rev.sha ELSE 0
    ELSE o.tips[rev.name]

\* the record of a call of download() or update()
GitOp(op, outcome, rev, designated) ==
    [op |-> op, outcome |-> outcome, rev |-> rev, designated |-> designated]

\* the origin fixture of the tests: one commit on main
GitInit ==
    /\ origin = [tips |-> [NoBranch EXCEPT !["main"] = 1],
                 parent |-> [c \in 1..MaxCommits |-> 0], next |-> 2]
    /\ repo = NotCloned
    /\ revision \in Revisions
    /\ gitop = GitOp("none", "none", revision, 0)
    /\ ToolIdle
    /\ obj = NoMetadata
    /\ hist = NoMetadata
    /\ call = NoMetadata
    /\ LayoutIdle
    /\ RelocIdle
    /\ ProjIdle

\* somebody commits on a branch of origin (dev is created from main)
OriginCommit ==
    /\ origin # NoMetadata
    /\ origin.next <= MaxCommits
    /\ \E b \in {"main", "dev"} :
          origin' = [origin EXCEPT
                        !.parent[origin.next] = IF origin.tips[b] # 0 THEN origin.tips[b] ELSE origin.tips["main"],
                        !.tips[b] = origin.next,
                        !.next = @ + 1]
    /\ UNCHANGED <<repo, revision, gitop, layoutVars, relocVars, projVars, codecVars, utilVars, toolVars>>

\* the package is configured with another revision
Configure ==
    /\ revision # NoMetadata
    /\ \E rev \in Revisions \ {revision} : revision' = rev
    /\ UNCHANGED <<origin, repo, gitop, layoutVars, relocVars, projVars, codecVars, utilVars, toolVars>>

\* a tracked file of the working tree is edited, or restored
EditWorkingTree ==
    /\ repo # NoMetadata
    /\ repo.cloned
    /\ repo' = [repo EXCEPT !.dirty = ~@]
    /\ UNCHANGED <<origin, revision, gitop, layoutVars, relocVars, projVars, codecVars, utilVars, toolVars>>

\* ScmBaseClass.download -> Git._download
Download ==
    /\ repo # NoMetadata
    /\ IF repo.cloned
       THEN /\ repo' = repo
            /\ gitop' = GitOp("download", "skipped", revision, Designates(origin, revision))
       ELSE LET cloned == clone(origin, revision)
            IN  /\ repo' = cloned.repo
                /\ gitop' = GitOp("download", IF cloned.raised THEN "raised" ELSE "returned",
                                  revision, Designates(origin, revision))
    /\ UNCHANGED <<origin, revision, layoutVars, relocVars, projVars, codecVars, utilVars, toolVars>>

\* ScmBaseClass.update -> Git._update: fetch() and clean(); clean removes
\* untracked files and moves no ref
Update ==
    /\ repo # NoMetadata
    /\ IF ~repo.cloned
       THEN /\ repo' = repo
            /\ gitop' = GitOp("update", "raised", revision, Designates(origin, revision))
       ELSE IF repo.dirty
       THEN /\ repo' = repo
            /\ gitop' = GitOp("update", "skipped", revision, Designates(origin, revision))
       ELSE LET fetched == fetch(repo, origin, revision)
            IN  /\ repo' = fetched.repo
                /\ gitop' = GitOp("update", IF fetched.raised THEN "raised" ELSE "returned",
                                  revision, Designates(origin, revision))
    /\ UNCHANGED <<origin, revision, layoutVars, relocVars, projVars, codecVars, utilVars, toolVars>>

GitNext == OriginCommit \/ Configure \/ EditWorkingTree \/ Download \/ Update

GitSpec == GitInit /\ [][GitNext]_vars

-----------------------------------------------------------------------------
(* Properties of Git (specification GitSpec) *)

-----------------------------------------------------------------------------
(* MemoryLayout: utils/memory_layout.py (specification ListSpec).  A        *)
(* MemoryLayout is a collections.UserList: the operations it does not       *)
(* override are those of UserList, which act on self.data.                  *)

\* the objects handed to the list: MemoryRegion objects and other objects
Items == [type : {"MemoryRegion", "dict"}, name : 1..2]

\* the outcome of an operation: the data of the list and the exception raised
ListOutcome(data, raised) == [data |-> data, raised |-> raised]

\* MemoryLayout.__setitem__
__setitem__(data, index, item) ==
    IF item.type = "MemoryRegion"
    THEN IF index \in 1..Len(data) THEN ListOutcome([data EXCEPT ![index] = item], "")
         ELSE ListOutcome(data, "IndexError")
    ELSE ListOutcome(data, "TypeError")

\* MemoryLayout.append
append(data, item) ==
    IF item.type = "MemoryRegion" THEN ListOutcome(Append(data, item), "")
    ELSE ListOutcome(data, "TypeError")

\* UserList.insert, not overridden: self.data.insert(i, item), in front of
\* the element at position index, at the end when index is past the end
insert(data, index, item) ==
    LET at == IF index > Len(data) THEN Len(data) + 1 ELSE index
    IN  ListOutcome(SubSeq(data, 1, at - 1) \o <<item>> \o SubSeq(data, at, Len(data)), "")

\* UserList.extend, not overridden: self.data.extend(other)
extend(data, other) == ListOutcome(data \o other, "")

\* UserList.pop, not overridden: self.data.pop(i)
pop(data, index) ==
    IF index \in 1..Len(data)
    THEN ListOutcome(SubSeq(data, 1, index - 1) \o SubSeq(data, index + 1, Len(data)), "")
    ELSE ListOutcome(data, "IndexError")

\* layout = MemoryLayout()
ListInit ==
    /\ ml = ListOutcome(<<>>, "")
    /\ wd = NoMetadata
    /\ obj = NoMetadata
    /\ hist = NoMetadata
    /\ call = NoMetadata
    /\ GitIdle
    /\ LayoutIdle
    /\ RelocIdle
    /\ ProjIdle

ListAppend ==
    /\ ml # NoMetadata
    /\ Len(ml.data) < MaxItems
    /\ \E item \in Items : ml' = append(ml.data, item)
    /\ UNCHANGED <<wd, layoutVars, relocVars, projVars, codecVars, utilVars, gitVars>>

ListSetItem ==
    /\ ml # NoMetadata
    /\ \E index \in 1..MaxItems, item \in Items : ml' = __setitem__(ml.data, index, item)
    /\ UNCHANGED <<wd, layoutVars, relocVars, projVars, codecVars, utilVars, gitVars>>

ListInsert ==
    /\ ml # NoMetadata
    /\ Len(ml.data) < MaxItems
    /\ \E index \in 1..MaxItems, item \in Items : ml' = insert(ml.data, index, item)
    /\ UNCHANGED <<wd, layoutVars, relocVars, projVars, codecVars, utilVars, gitVars>>

ListExtend ==
    /\ ml # NoMetadata
    /\ \E n \in 0..(MaxItems - Len(ml.data)) : \E other \in [1..n -> Items] :
          ml' = extend(ml.data, other)
    /\ UNCHANGED <<wd, layoutVars, relocVars, projVars, codecVars, utilVars, gitVars>>

ListPop ==
    /\ ml # NoMetadata
    /\ \E index \in 1..MaxItems : ml' = pop(ml.data, index)
    /\ UNCHANGED <<wd, layoutVars, relocVars, projVars, codecVars, utilVars, gitVars>>

ListNext == ListPop \/ ListAppend \/ ListSetItem \/ ListInsert \/ ListExtend

ListSpec == ListInit /\ [][ListNext]_vars

\* every element is a MemoryRegion
OnlyRegions == \A i \in 1..Len(ml.data) : ml.data[i].type = "MemoryRegion"

\* C27: a MemoryLayout only ever holds MemoryRegion items and is append-only:
\* after any sequence of list operations (append, item assignment, insert,
\* extend, removal) every element is a MemoryRegion and every region appended
\* earlier is still present at the same position.
C27_OnlyRegionsAppendOnly == [](OnlyRegions) /\ [][IsPrefix(ml.data, ml'.data)]_vars

-----------------------------------------------------------------------------
(* working_directory / working_directory_attr: utils/__init__.py            *)
(* (specification WdSpec).  The process has one current directory; wrapped  *)
(* functions call each other, may change directory themselves, and return   *)
(* or raise.                                                                *)

\* the directories named: three that exist and one that does not
Directories == {"/", "/src", "/src/pkg", "/missing"}
ExistingDirectories == Directories \ {"/missing"}

\* _WorkingDir.__init__
_WorkingDir(cwd, working_dir) == [_prev |-> cwd, _next |-> working_dir]

\* _WorkingDir.enter: os.chdir raises when the directory does not exist
enter(w, cwd) ==
    [w |-> [w EXCEPT !._prev = cwd],
     cwd |-> IF w._next \in ExistingDirectories THEN w._next ELSE cwd,
     raised |-> IF w._next \in ExistingDirectories THEN "" ELSE "FileNotFoundError"]

\* a leave that stays where the function ended
leave_nowhere(w, cwd) == cwd

\* _WorkingDir.leave: the current directory after os.chdir(self._prev)
leave(w, cwd) == w._prev

\* no wrapped call has ended yet
NoCall == [depth |-> 0, began |-> "", target |-> "", entered |-> FALSE, original |-> "", seen |-> ""]

WdInit ==
    /\ wd = [cwd |-> "/", frames |-> <<>>, last |-> NoCall]
    /\ ml = NoMetadata
    /\ obj = NoMetadata
    /\ hist = NoMetadata
    /\ call = NoMetadata
    /\ GitIdle
    /\ LayoutIdle
    /\ RelocIdle
    /\ ProjIdle

\* wrapper, up to the call of func: wd = _WorkingDir(path); wd.enter().  When
\* enter raises, the finally clause leaves and the exception goes to the
\* caller.
WrapperCall ==
    /\ wd # NoMetadata
    /\ Len(wd.frames) < MaxDepth
    /\ \E path \in Directories :
          LET entered == enter(_WorkingDir(wd.cwd, path), wd.cwd)
          IN  IF entered.raised = ""
              THEN wd' = [wd EXCEPT
                             !.cwd = entered.cwd,
                             !.frames = Append(@, [w |-> entered.w, began |-> wd.cwd])]
              ELSE wd' = [wd EXCEPT
                             !.cwd = leave(entered.w, entered.cwd),
                             !.last = [depth |-> Len(wd.frames) + 1, began |-> wd.cwd, target |-> path,
                                       entered |-> FALSE, original |-> entered.raised,
                                       seen |-> entered.raised]]
    /\ UNCHANGED <<ml, layoutVars, relocVars, projVars, codecVars, utilVars, gitVars>>

\* the function running changes the current directory itself
FuncChdir ==
    /\ wd # NoMetadata
    /\ Len(wd.frames) > 0
    /\ \E d \in ExistingDirectories \ {wd.cwd} : wd' = [wd EXCEPT !.cwd = d]
    /\ UNCHANGED <<ml, layoutVars, relocVars, projVars, codecVars, utilVars, gitVars>>

\* func returns or raises: except Exception: raise; finally: wd.leave();
\* return ret
FuncEnds ==
    /\ wd # NoMetadata
    /\ Len(wd.frames) > 0
    /\ \E outcome \in {"return", "raise"} :
          LET top == wd.frames[Len(wd.frames)]
          IN  wd' = [wd EXCEPT
                        !.cwd = leave(top.w, wd.cwd),
                        !.frames = SubSeq(@, 1, Len(@) - 1),
                        !.last = [depth |-> Len(wd.frames), began |-> top.began, target |-> top.w._next,
                                  entered |-> TRUE, original |-> outcome, seen |-> outcome]]
    /\ UNCHANGED <<ml, layoutVars, relocVars, projVars, codecVars, utilVars, gitVars>>

WdNext == WrapperCall \/ FuncChdir \/ FuncEnds

WdSpec == WdInit /\ [][WdNext]_vars

\* what a step of a wrapper does to the current directory
WrapperStep ==
    /\ Len(wd'.frames) > Len(wd.frames) => wd'.cwd = wd'.frames[Len(wd'.frames)].w._next
    /\ Len(wd'.frames) < Len(wd.frames) =>
          /\ wd'.cwd = wd.frames[Len(wd.frames)].began
          /\ wd'.last.seen = wd'.last.original
    /\ (Len(wd'.frames) = Len(wd.frames) /\ wd'.last # wd.last) =>
          /\ wd'.cwd = wd.cwd
          /\ wd'.last.seen = wd'.last.original

=============================================================================
